---------------------------- MODULE Spec2Model ----------------------------
(***************************************************************************)
(* The RCON worker pool of mcrconserver: the command object, the job       *)
(* sorter, the worker loop and the shutdown sequence of                    *)
(* backend/rconclient/command.py and backend/rconclient/worker.py.         *)
(*                                                                         *)
(* The pool runs on one asyncio event loop.  A task runs without           *)
(* interruption from one suspension point (an await that blocks) to the    *)
(* next, so every action below is the code between two suspension points   *)
(* of one task.                                                            *)
(***************************************************************************)
EXTENDS Integers, Sequences, FiniteSets, TLC

(***************************************************************************)
(* Bounds of the model.                                                    *)
(***************************************************************************)
NumCommands == 2
WorkerCount == 2

(***************************************************************************)
(* Program constants.                                                      *)
(***************************************************************************)
\* RCONWorkerPoolConfig.NO_TIMEOUT is None; -1 stands for None here.
NO_TIMEOUT == -1
DISABLE == 0
\* Any positive number of seconds: a finite timeout, a positive delay.
SomeSeconds == 1

Cmds == 1..NumCommands
NoCmd == 0

VARIABLES
    command_id,            \* RCONCommand.command_id
    dependencies,          \* RCONCommand.dependencies, a list of commands
    result,                \* RCONCommand.result: "absent" is None (fire and forget)
    completion,            \* RCONCommand.completion, an asyncio.Event
    config,                \* RCONWorkerPoolConfig
    queue,                 \* RCONWorkerPool._queue: the items
    unfinished_tasks,      \* asyncio.Queue._unfinished_tasks
    is_shutdown,           \* asyncio.Queue._is_shutdown
    pool_should_shutdown,  \* RCONWorkerPoolState
    worker_should_shutdown,
    worker_pc,             \* where each _worker task is suspended
    worker_cmd,            \* the local variable command of each _worker
    connected,             \* SocketClient._request_id /= -1, per client
    shutdown_pc,           \* where shutdown() is suspended
    last_call,             \* outcome of the latest queue_command or queue_job call
    submitted,             \* commands the caller has passed to the pool
    enqueued,              \* history: how many times each command was put on the queue
    sent,                  \* history: how many times each command's text was written
    force_failed,          \* history: commands shutdown() took off the queue
    handled,               \* history: the outcomes workers got for each command
    sort_input,            \* input of a direct topological_sort call
    sort_output,           \* its outcome
    request_id,            \* SocketClient._request_id of the client under study
    script,                \* the response frames the server sends for one request
    stream,                \* the frames of the script not read yet
    response_parts,        \* send_command: the local list response_parts
    send_pc,               \* where send_command is suspended
    send_result,           \* what send_command returned or raised
    session_lost,          \* history: workers whose latest send_command returned
                           \* None and that have not called reconnect() since
    conn,                  \* connect(): each get_new_client call and its streams
    connect_pc,            \* connect(): "gather", "returned" or "raised"
    connect_error,         \* connect(): the exception it raised
    num_retries,           \* SocketClientConfig.retry_attempts
    client,                \* the SocketClient of worker 1: its streams and where
                           \* its reconnect() or disconnect() is suspended
    wire,                  \* history: the packets written for that client
    shutdown_calls,        \* history: shutdown() calls that have returned
    codec,                 \* one packet: the arguments of _format_packet, its
                           \* bytes, and what _read_response makes of them
    fifo_log               \* history: the commands in the order the queue took
                           \* them, gave them out, and their texts were written

cmd_vars == <<command_id, dependencies, result, completion>>
queue_vars == <<queue, unfinished_tasks, is_shutdown>>
flag_vars == <<pool_should_shutdown, worker_should_shutdown>>
worker_vars == <<worker_pc, worker_cmd, connected>>
hist_vars == <<enqueued, sent, force_failed, handled>>
sort_vars == <<sort_input, sort_output>>
send_vars == <<request_id, script, stream, response_parts, send_pc, send_result>>
conn_vars == <<conn, connect_pc, connect_error, num_retries>>
sock_vars == <<client, wire>>
client_vars == <<send_vars, session_lost, conn_vars, sock_vars>>
\* What the actions of the pool alone leave as it is.
aux_vars == <<shutdown_calls, codec, fifo_log>>
rest_vars == <<client_vars, aux_vars>>
vars == <<command_id, dependencies, result, completion, config, queue,
          unfinished_tasks, is_shutdown, pool_should_shutdown,
          worker_should_shutdown, worker_pc, worker_cmd, connected,
          shutdown_pc, last_call, submitted, enqueued, sent, force_failed,
          handled, sort_input, sort_output, rest_vars>>

\* The worker tasks of the pool: range(config.worker_count)
Workers == 1..config.worker_count

\* connect() starts worker i on self._clients[i]: the index of the client
\* that worker w was given (the model counts both from 1).
Clients == 1..config.worker_count

\* A pool that hands its first client to every worker.
ClientOf_Shared(w) == 1

ClientOf(w) == w

(***************************************************************************)
(* Sequences.                                                              *)
(***************************************************************************)
Range(s) == {s[i] : i \in 1..Len(s)}

IsInjective(s) == \A i, j \in 1..Len(s) : i /= j => s[i] /= s[j]

\* The lists without repetition over S, of length at most n.
ListsOver(S, n) ==
    {s \in UNION {[1..k -> S] : k \in 0..n} : IsInjective(s)}

Min(S) == CHOOSE x \in S : \A y \in S : x <= y

RECURSIVE Ascending(_)
Ascending(S) ==
    IF S = {} THEN <<>> ELSE <<Min(S)>> \o Ascending(S \ {Min(S)})


(***************************************************************************)
(* RCONCommand: settlement.  A command's mutable state is the pair of its  *)
(* result future and its completion event; st is [result, completion] of   *)
(* all commands and the operators return it after the call.                *)
(***************************************************************************)
CmdState == [result |-> result, completion |-> completion]

\* Future.done()
FutureDone(st, c) == st.result[c] /= "pending"

set_command_result(st, c, r) ==
    IF st.result[c] /= "absent" /\ ~FutureDone(st, c)
    THEN [result |-> [st.result EXCEPT ![c] = r],
          completion |-> [st.completion EXCEPT ![c] = TRUE]]
    ELSE st

\* A set_command_error without the done() check: the last call wins.
set_command_error_Overwrite(st, c, e) ==
    IF st.result[c] /= "absent"
    THEN [result |-> [st.result EXCEPT ![c] = e],
          completion |-> [st.completion EXCEPT ![c] = TRUE]]
    ELSE st

set_command_error(st, c, e) ==
    IF st.result[c] /= "absent" /\ ~FutureDone(st, c)
    THEN [result |-> [st.result EXCEPT ![c] = e],
          completion |-> [st.completion EXCEPT ![c] = TRUE]]
    ELSE st

\* The outcomes a result future can hold.
Response == "response"
AuthLost == "ConnectionError: RCON authentication failed"
TransportError == "TimeoutError or ConnectionError"
PoolShutDown == "ConnectionError: Processing pool shut down"
Outcomes == {Response, AuthLost, TransportError, PoolShutDown}

(***************************************************************************)
(* RCONCommand.topological_sort: a depth first search over the             *)
(* dependencies, with the sets finished and visiting keyed by command_id.  *)
(* s is [sorted, finished, visiting, err]; err is the ValueError raised,   *)
(* which ends the search.                                                  *)
(***************************************************************************)
RECURSIVE depth_first_search(_, _)
RECURSIVE VisitDependencies(_, _, _)

depth_first_search(command, s) ==
    IF s.err /= "none" THEN s
    ELSE IF command_id[command] \in s.finished THEN s
    ELSE IF command_id[command] \in s.visiting
         THEN [s EXCEPT !.err = "cycle"]
    ELSE LET s1 == [s EXCEPT !.visiting = @ \cup {command_id[command]}]
             s2 == VisitDependencies(dependencies[command], 1, s1)
         IN  IF s2.err /= "none" THEN s2
             ELSE [s2 EXCEPT !.visiting = @ \ {command_id[command]},
                             !.finished = @ \cup {command_id[command]},
                             !.sorted = Append(@, command)]

\* for dependency in command.dependencies: depth_first_search(dependency)
VisitDependencies(deps, i, s) ==
    IF i > Len(deps) \/ s.err /= "none" THEN s
    ELSE VisitDependencies(deps, i + 1, depth_first_search(deps[i], s))

\* for command in commands: if command.command_id not in finished: ...
RECURSIVE SortLoop(_, _, _)
SortLoop(commands, i, s) ==
    IF i > Len(commands) \/ s.err /= "none" THEN s
    ELSE SortLoop(commands, i + 1,
                  IF command_id[commands[i]] \in s.finished THEN s
                  ELSE depth_first_search(commands[i], s))

HasDuplicateIds(commands) ==
    Cardinality({command_id[commands[i]] : i \in 1..Len(commands)})
        /= Len(commands)

topological_sort(commands) ==
    IF HasDuplicateIds(commands)
    THEN [status |-> "duplicate", sorted |-> <<>>]
    ELSE LET s == SortLoop(commands, 1,
                    [sorted |-> <<>>, finished |-> {}, visiting |-> {},
                     err |-> "none"])
         IN  IF s.err /= "none"
             THEN [status |-> s.err, sorted |-> <<>>]
             ELSE [status |-> "ok", sorted |-> s.sorted]

(***************************************************************************)
(* The state after RCONWorkerPool.connect() has returned: the commands the *)
(* caller has built (ids, dependencies, with or without a result future),  *)
(* the configuration, an empty queue and worker_count tasks created.       *)
(***************************************************************************)
\* Dependency graphs of the pool runs: any graph, cycles included, each
\* dependency list in ascending order.
PoolGraphs ==
    {g \in [Cmds -> SUBSET Cmds] : \A c \in Cmds : c \notin g[c]}

\* Each command with a result future or without one (fire and forget).
ResultChoices == [Cmds -> {"absent", "pending"}]

Timeouts == {DISABLE, SomeSeconds, NO_TIMEOUT}

Configs ==
    [grace_period : Timeouts,
     await_shutdown_period : Timeouts,
     command_delay : {DISABLE, SomeSeconds},
     worker_count : 1..WorkerCount]

\* A client as SocketClient.__init__ leaves it; no request under study.
NoResult == [kind |-> "none", value |-> ""]

\* SocketClientConfig.INFINITE
INFINITE == -1

\* The AUTH packet _send_auth writes.
AuthFrame == [id |-> 0, type |-> "AUTH"]

\* A get_new_client call that returned its client: one connection opened,
\* the AUTH packet written, one response read, _request_id = 1.
ConnectedClient ==
    [pc |-> "ok", open |-> TRUE, attempt |-> 0, calls |-> 1,
     written |-> <<AuthFrame>>, responses |-> <<0>>, error |-> "none",
     request_id |-> 1]

\* The client get_new_client returned: its streams are open, no operation
\* is in progress, one session (authentication) so far.
\*   pc        where reconnect() or disconnect() is suspended: "closing"
\*             (wait_closed of the old writer), "try" (open_connection),
\*             "auth" (_send_auth), "cleanup" (wait_closed of the new
\*             writer), "returned", "raised"; "idle" outside them
\*   open      self._writer has not been closed by the client
\*   new_open  the streams reconnect() holds in its local variables
\*   attempt   _try_connection's local variable attempt
\*   calls     open_connection calls of the reconnect() in progress
\*   session   authentications that succeeded so far
\*   result    what the latest reconnect() returned or raised
\*   close_error  the latest close of the old streams raised
\*   answered  the server has answered the request in progress
IdleClient ==
    [pc |-> "idle", open |-> TRUE, new_open |-> "none", attempt |-> 0,
     calls |-> 0, session |-> 1, result |-> "none", close_error |-> FALSE,
     answered |-> TRUE]

SockInit ==
    /\ client = IdleClient
    /\ wire = <<>>

\* No packet under study.
NoPacket == [stage |-> "none"]
NoLog == [accepted |-> <<>>, dequeued |-> <<>>, written |-> <<>>]

ClientInit ==
    /\ request_id = 1
    /\ script = <<>>
    /\ stream = <<>>
    /\ response_parts = <<>>
    /\ send_pc = "idle"
    /\ send_result = NoResult
    /\ session_lost = {}
    /\ SockInit
    /\ shutdown_calls = 0
    /\ fifo_log = NoLog
    /\ codec = NoPacket
    /\ conn = [i \in Workers |-> ConnectedClient]
    /\ connect_pc = "returned"
    /\ connect_error = "none"
    /\ num_retries = INFINITE

PoolInit ==
    /\ queue = <<>>
    /\ unfinished_tasks = 0
    /\ is_shutdown = FALSE
    /\ pool_should_shutdown = FALSE
    /\ worker_should_shutdown = FALSE
    /\ worker_pc = [w \in Workers |-> "get"]
    /\ worker_cmd = [w \in Workers |-> NoCmd]
    /\ connected = [w \in Workers |-> TRUE]
    /\ shutdown_pc = "idle"
    /\ last_call = "none"
    /\ submitted = {}
    /\ enqueued = [c \in Cmds |-> 0]
    /\ sent = [c \in Cmds |-> 0]
    /\ force_failed = {}
    /\ handled = [c \in Cmds |-> {}]
    /\ completion = [c \in Cmds |-> FALSE]

Init ==
    /\ config \in Configs
    /\ PoolInit
    /\ command_id = [c \in Cmds |-> c]
    /\ \E g \in PoolGraphs : dependencies = [c \in Cmds |-> Ascending(g[c])]
    /\ result \in ResultChoices
    /\ sort_input = <<>>
    /\ sort_output = [status |-> "none", sorted |-> <<>>]
    /\ ClientInit

(***************************************************************************)
(* asyncio.Queue                                                           *)
(***************************************************************************)
\* put_nowait of each item of items, in order.
PutAll(items) ==
    /\ queue' = queue \o items
    /\ unfinished_tasks' = unfinished_tasks + Len(items)
    /\ enqueued' = [c \in Cmds |->
            enqueued[c] + Cardinality({i \in 1..Len(items) : items[i] = c})]

(***************************************************************************)
(* RCONWorkerPool.queue_command and queue_job                              *)
(***************************************************************************)
ShuttingDownError == "RuntimeError: Worker pool is shutting down"
SortError == "ValueError: cycle or duplicate IDs"

queue_command(command) ==
    /\ command \notin submitted
    /\ IF pool_should_shutdown
       THEN /\ last_call' = ShuttingDownError
            /\ UNCHANGED <<queue_vars, enqueued, submitted>>
       ELSE /\ PutAll(<<command>>)
            /\ last_call' = "ok"
            /\ submitted' = submitted \cup {command}
            /\ UNCHANGED is_shutdown
    /\ UNCHANGED <<cmd_vars, config, flag_vars, worker_vars, shutdown_pc,
                   sent, force_failed, handled, sort_vars>>

\* A queue_job without the pool_should_shutdown check.
queue_job_NoCheck(commands) ==
    /\ Range(commands) \cap submitted = {}
    /\ LET sorted_commands == topological_sort(commands)
       IN  IF sorted_commands.status /= "ok"
           THEN /\ last_call' = SortError
                /\ UNCHANGED <<queue_vars, enqueued, submitted>>
           ELSE /\ PutAll(sorted_commands.sorted)
                /\ last_call' = "ok"
                /\ submitted' = submitted \cup Range(commands)
                /\ UNCHANGED is_shutdown
    /\ UNCHANGED <<cmd_vars, config, flag_vars, worker_vars, shutdown_pc,
                   sent, force_failed, handled, sort_vars>>

queue_job(commands) ==
    /\ Range(commands) \cap submitted = {}
    /\ IF pool_should_shutdown
       THEN /\ last_call' = ShuttingDownError
            /\ UNCHANGED <<queue_vars, enqueued, submitted>>
       ELSE LET sorted_commands == topological_sort(commands)
            IN  IF sorted_commands.status /= "ok"
                THEN /\ last_call' = SortError
                     /\ UNCHANGED <<queue_vars, enqueued, submitted>>
                ELSE /\ PutAll(sorted_commands.sorted)
                     /\ last_call' = "ok"
                     /\ submitted' = submitted \cup Range(commands)
                     /\ UNCHANGED is_shutdown
    /\ UNCHANGED <<cmd_vars, config, flag_vars, worker_vars, shutdown_pc,
                   sent, force_failed, handled, sort_vars>>

(***************************************************************************)
(* _worker.  worker_pc is the await at which the task is suspended:        *)
(*   "get"        queue.get() (or not started yet: the loop head)          *)
(*   "deps"       asyncio.gather of the dependencies' completion.wait()    *)
(*   "send"       inside client.send_command, after the command was written*)
(*   "reconnect"  client.reconnect()                                       *)
(*   "delay"      asyncio.sleep(command_delay)                             *)
(*   "disconnect" client.disconnect()                                      *)
(*   "done"       returned; "raised": ended by an exception it does not    *)
(*   catch; "cancelled": ended by CancelledError.                          *)
(***************************************************************************)
Running(w) == worker_pc[w] \notin {"done", "raised", "cancelled"}

SetPc(w, pc) == worker_pc' = [worker_pc EXCEPT ![w] = pc]

Settle(st) == result' = st.result /\ completion' = st.completion

\* An error handler that fails every pending command with the error.
HandleConnectionError_FailAll(w, command) ==
    /\ unfinished_tasks' = unfinished_tasks - 1
    /\ result' = [d \in Cmds |-> IF result[d] = "pending"
                                 THEN TransportError ELSE result[d]]
    /\ completion' = [d \in Cmds |-> completion[d] \/ result[d] = "pending"]
    /\ handled' = [handled EXCEPT ![command] = @ \cup {"error"}]
    /\ SetPc(w, "reconnect")

\* except (TimeoutError, ConnectionError): task_done, fail the command if it
\* has a future, then await client.reconnect().
HandleConnectionError(w, command) ==
    IF unfinished_tasks <= 0
    THEN \* task_done() raises ValueError inside the handler
         /\ SetPc(w, "raised")
         /\ UNCHANGED <<unfinished_tasks, result, completion, handled>>
    ELSE /\ unfinished_tasks' = unfinished_tasks - 1
         /\ Settle(IF result[command] /= "absent"
                   THEN set_command_error(CmdState, command, TransportError)
                   ELSE CmdState)
         /\ handled' = [handled EXCEPT ![command] = @ \cup {"error"}]
         /\ SetPc(w, "reconnect")

\* client.send_command(command.command) up to its first await: a
\* disconnected client raises ConnectionError before it writes anything;
\* otherwise the command packet is written.
BeginSend(w, command) ==
    IF connected[ClientOf(w)]
    THEN /\ sent' = [sent EXCEPT ![command] = @ + 1]
         /\ SetPc(w, "send")
         /\ UNCHANGED <<unfinished_tasks, result, completion, handled>>
    ELSE /\ HandleConnectionError(w, command)
         /\ UNCHANGED sent

\* A queue.get() that hands out the newest item of the queue.
WorkerGet_Newest(w) ==
    /\ worker_pc[w] = "get"
    /\ ~worker_should_shutdown
    /\ queue /= <<>>
    /\ LET command == queue[Len(queue)]
       IN  /\ queue' = SubSeq(queue, 1, Len(queue) - 1)
           /\ worker_cmd' = [worker_cmd EXCEPT ![w] = command]
           /\ IF dependencies[command] /= <<>>
              THEN /\ SetPc(w, "deps")
                   /\ UNCHANGED <<unfinished_tasks, result, completion, sent,
                                  handled>>
              ELSE BeginSend(w, command)
    /\ UNCHANGED <<command_id, dependencies, config, is_shutdown, flag_vars,
                   connected, shutdown_pc, last_call, submitted, enqueued,
                   force_failed, sort_vars>>

\* while not state.worker_should_shutdown: command = await queue.get()
WorkerGet(w) ==
    /\ worker_pc[w] = "get"
    /\ ~worker_should_shutdown
    /\ queue /= <<>>
    /\ LET command == Head(queue)
       IN  /\ queue' = Tail(queue)
           /\ worker_cmd' = [worker_cmd EXCEPT ![w] = command]
           /\ IF dependencies[command] /= <<>>
              THEN /\ SetPc(w, "deps")
                   /\ UNCHANGED <<unfinished_tasks, result, completion, sent,
                                  handled>>
              ELSE BeginSend(w, command)
    /\ UNCHANGED <<command_id, dependencies, config, is_shutdown, flag_vars,
                   connected, shutdown_pc, last_call, submitted, enqueued,
                   force_failed, sort_vars>>

\* The loop condition fails, or queue.get() raises QueueShutDown.
WorkerExit(w) ==
    /\ worker_pc[w] = "get"
    /\ \/ worker_should_shutdown
       \/ is_shutdown /\ queue = <<>>
    /\ SetPc(w, "disconnect")
    /\ UNCHANGED <<cmd_vars, config, queue_vars, flag_vars, worker_cmd,
                   connected, shutdown_pc, last_call, submitted, hist_vars,
                   sort_vars>>

\* A worker that does not wait for the dependencies before it sends.
WorkerDepsDone_NoWait(w) ==
    /\ worker_pc[w] = "deps"
    /\ BeginSend(w, worker_cmd[w])
    /\ UNCHANGED <<command_id, dependencies, config, queue, is_shutdown,
                   flag_vars, worker_cmd, connected, shutdown_pc, last_call,
                   submitted, enqueued, force_failed, sort_vars>>

\* A worker that goes on only when every dependency has succeeded, as if
\* it awaited the dependencies' results.
WorkerDepsDone_OnlySuccess(w) ==
    /\ worker_pc[w] = "deps"
    /\ \A d \in Range(dependencies[worker_cmd[w]]) :
          completion[d] /\ result[d] = Response
    /\ BeginSend(w, worker_cmd[w])
    /\ UNCHANGED <<command_id, dependencies, config, queue, is_shutdown,
                   flag_vars, worker_cmd, connected, shutdown_pc, last_call,
                   submitted, enqueued, force_failed, sort_vars>>

\* Every dependency's completion event is set: gather returns.
WorkerDepsDone(w) ==
    /\ worker_pc[w] = "deps"
    /\ \A d \in Range(dependencies[worker_cmd[w]]) : completion[d]
    /\ BeginSend(w, worker_cmd[w])
    /\ UNCHANGED <<command_id, dependencies, config, queue, is_shutdown,
                   flag_vars, worker_cmd, connected, shutdown_pc, last_call,
                   submitted, enqueued, force_failed, sort_vars>>

\* After the try block: the pacing delay, or back to the loop head.
AfterCommand(w) ==
    /\ SetPc(w, IF config.command_delay > 0 THEN "delay" ELSE "get")
    /\ worker_cmd' = [worker_cmd EXCEPT ![w] = NoCmd]

\* send_command returned r: a response string ("response"), or None ("null").
WorkerSendReturns(w, r) ==
    /\ worker_pc[w] = "send"
    /\ IF unfinished_tasks <= 0
       THEN \* task_done() raises ValueError, which the worker does not catch
            /\ SetPc(w, "raised")
            /\ UNCHANGED <<unfinished_tasks, result, completion, worker_cmd,
                           handled>>
       ELSE /\ unfinished_tasks' = unfinished_tasks - 1
            /\ Settle(IF r = "null"
                      THEN set_command_error(CmdState, worker_cmd[w], AuthLost)
                      ELSE set_command_result(CmdState, worker_cmd[w], Response))
            /\ handled' = [handled EXCEPT ![worker_cmd[w]] = @ \cup {r}]
            /\ AfterCommand(w)
    /\ UNCHANGED <<command_id, dependencies, config, queue, is_shutdown,
                   flag_vars, connected, shutdown_pc, last_call, submitted,
                   enqueued, sent, force_failed, sort_vars>>

\* send_command raised TimeoutError or ConnectionError.
WorkerSendFails(w) ==
    /\ worker_pc[w] = "send"
    /\ HandleConnectionError(w, worker_cmd[w])
    /\ UNCHANGED <<command_id, dependencies, config, queue, is_shutdown,
                   flag_vars, worker_cmd, connected, shutdown_pc, last_call,
                   submitted, enqueued, sent, force_failed, sort_vars>>

\* send_command raised something else (readexactly's IncompleteReadError on
\* a short read, a UnicodeDecodeError): the task ends with it.
WorkerSendRaises(w) ==
    /\ worker_pc[w] = "send"
    /\ SetPc(w, "raised")
    /\ UNCHANGED <<cmd_vars, config, queue_vars, flag_vars, worker_cmd,
                   connected, shutdown_pc, last_call, submitted, hist_vars,
                   sort_vars>>

\* client.reconnect() returned: authenticated again (ok), or the server
\* rejected the password (reconnect returns None and _request_id stays -1).
\* The worker ignores the return value and continues the loop.
WorkerReconnectReturns(w, ok) ==
    /\ worker_pc[w] = "reconnect"
    /\ connected' = [connected EXCEPT ![ClientOf(w)] = ok]
    /\ SetPc(w, "get")
    /\ worker_cmd' = [worker_cmd EXCEPT ![w] = NoCmd]
    /\ UNCHANGED <<cmd_vars, config, queue_vars, flag_vars, shutdown_pc,
                   last_call, submitted, hist_vars, sort_vars>>

\* client.reconnect() raised (retry budget exhausted, timeout or closed
\* stream during auth), inside the except handler: the task ends with it.
WorkerReconnectRaises(w) ==
    /\ worker_pc[w] = "reconnect"
    /\ connected' = [connected EXCEPT ![ClientOf(w)] = FALSE]
    /\ SetPc(w, "raised")
    /\ UNCHANGED <<cmd_vars, config, queue_vars, flag_vars, worker_cmd,
                   shutdown_pc, last_call, submitted, hist_vars, sort_vars>>

WorkerDelayDone(w) ==
    /\ worker_pc[w] = "delay"
    /\ SetPc(w, "get")
    /\ UNCHANGED <<cmd_vars, config, queue_vars, flag_vars, worker_cmd,
                   connected, shutdown_pc, last_call, submitted, hist_vars,
                   sort_vars>>

\* client.disconnect() returned: _request_id = -1, the task returns.
WorkerDisconnected(w) ==
    /\ worker_pc[w] = "disconnect"
    /\ connected' = [connected EXCEPT ![ClientOf(w)] = FALSE]
    /\ SetPc(w, "done")
    /\ UNCHANGED <<cmd_vars, config, queue_vars, flag_vars, worker_cmd,
                   shutdown_pc, last_call, submitted, hist_vars, sort_vars>>

(***************************************************************************)
(* RCONWorkerPool.shutdown.  shutdown_pc is "idle" before the call,        *)
(* "grace" in wait_for(queue.join(), grace_period), "await" in             *)
(* wait_for(gather(workers), await_shutdown_period), "done" once returned. *)
(***************************************************************************)
\* while self._queue.qsize(): get_nowait(); set_command_error(...)
RECURSIVE FailRemaining(_, _, _)
FailRemaining(items, i, st) ==
    IF i > Len(items) THEN st
    ELSE FailRemaining(items, i + 1,
                       set_command_error(st, items[i], PoolShutDown))

\* A shutdown that returns without cancelling the workers still running.
CancelWorkers_None ==
    worker_pc' = worker_pc

\* worker.cancel() for every worker, then gather: CancelledError is thrown
\* into every task that has not finished, at the await it is suspended in.
CancelWorkers ==
    worker_pc' = [w \in Workers |->
                    IF Running(w) THEN "cancelled" ELSE worker_pc[w]]

\* From "queue clear period" on, up to the next await of shutdown().
\* get_nowait leaves _unfinished_tasks alone, and so does
\* queue.shutdown(immediate=True) on the queue it finds empty.
ClearQueueAndAwait ==
    /\ worker_should_shutdown' = TRUE
    /\ Settle(FailRemaining(queue, 1, CmdState))
    /\ force_failed' = force_failed \cup Range(queue)
    /\ queue' = <<>>
    /\ is_shutdown' = TRUE
    /\ UNCHANGED unfinished_tasks
    /\ IF config.await_shutdown_period /= DISABLE
       THEN shutdown_pc' = "await" /\ UNCHANGED worker_pc
       ELSE shutdown_pc' = "done" /\ CancelWorkers

\* A shutdown that tells the workers to stop in the same breath as it
\* stops the submissions, before the grace wait.
ShutdownBegin_BothFlags ==
    /\ shutdown_pc = "idle"
    /\ pool_should_shutdown' = TRUE
    /\ IF config.grace_period /= DISABLE /\ unfinished_tasks > 0
       THEN /\ shutdown_pc' = "grace"
            /\ worker_should_shutdown' = TRUE
            /\ UNCHANGED <<result, completion, queue_vars, worker_pc,
                           force_failed>>
       ELSE ClearQueueAndAwait
    /\ UNCHANGED <<command_id, dependencies, config, worker_cmd, connected,
                   last_call, submitted, enqueued, sent, handled, sort_vars>>

\* shutdown() up to its first await.  queue.join() returns at once when
\* nothing is unfinished.
ShutdownBegin ==
    /\ shutdown_pc = "idle"
    /\ pool_should_shutdown' = TRUE
    /\ IF config.grace_period /= DISABLE /\ unfinished_tasks > 0
       THEN /\ shutdown_pc' = "grace"
            /\ UNCHANGED <<result, completion, queue_vars,
                           worker_should_shutdown, worker_pc, force_failed>>
       ELSE ClearQueueAndAwait
    /\ UNCHANGED <<command_id, dependencies, config, worker_cmd, connected,
                   last_call, submitted, enqueued, sent, handled, sort_vars>>

\* The grace wait ends: the join completed, or a finite grace period ran out.
ShutdownGraceEnds ==
    /\ shutdown_pc = "grace"
    /\ \/ unfinished_tasks = 0
       \/ config.grace_period /= NO_TIMEOUT
    /\ ClearQueueAndAwait
    /\ UNCHANGED <<command_id, dependencies, config, pool_should_shutdown,
                   worker_cmd, connected, last_call, submitted, enqueued,
                   sent, handled, sort_vars>>

\* A shutdown that clears both flags when it is over, as if to leave the
\* pool ready for another connect().
ShutdownAwaitEnds_ResetFlags ==
    /\ shutdown_pc = "await"
    /\ \/ \A w \in Workers : ~Running(w)
       \/ config.await_shutdown_period /= NO_TIMEOUT
    /\ CancelWorkers
    /\ shutdown_pc' = "done"
    /\ pool_should_shutdown' = FALSE
    /\ worker_should_shutdown' = FALSE
    /\ UNCHANGED <<cmd_vars, config, queue_vars, worker_cmd, connected,
                   last_call, submitted, hist_vars, sort_vars>>

\* A shutdown that waits for the workers without a time limit, whatever
\* await_shutdown_period says.
ShutdownAwaitEnds_NoTimeout ==
    /\ shutdown_pc = "await"
    /\ \A w \in Workers : ~Running(w)
    /\ CancelWorkers
    /\ shutdown_pc' = "done"
    /\ UNCHANGED <<cmd_vars, config, queue_vars, flag_vars, worker_cmd,
                   connected, last_call, submitted, hist_vars, sort_vars>>

\* The wait for the workers ends: all have finished, or a finite period ran
\* out; then every worker is cancelled and gathered.
ShutdownAwaitEnds ==
    /\ shutdown_pc = "await"
    /\ \/ \A w \in Workers : ~Running(w)
       \/ config.await_shutdown_period /= NO_TIMEOUT
    /\ CancelWorkers
    /\ shutdown_pc' = "done"
    /\ UNCHANGED <<cmd_vars, config, queue_vars, flag_vars, worker_cmd,
                   connected, last_call, submitted, hist_vars, sort_vars>>

(***************************************************************************)
(* The pool: callers submitting, workers, the server's answers, shutdown.  *)
(***************************************************************************)
\* Bookkeeping of session_lost: a None from send_command marks the
\* worker's session as lost, a reconnect() that returns clears the mark.
SessionAfterSend(w, r) ==
    session_lost' = IF r = "null" THEN session_lost \cup {w}
                    ELSE session_lost \ {w}

SessionAfterReconnect(w) == session_lost' = session_lost \ {w}

MaxJob == NumCommands

Jobs == ListsOver(Cmds, MaxJob)

Next ==
    \/ \E c \in Cmds : queue_command(c) /\ UNCHANGED rest_vars
    \/ \E commands \in Jobs : queue_job(commands) /\ UNCHANGED rest_vars
    \/ \E w \in Workers : WorkerGet(w) /\ UNCHANGED rest_vars
    \/ \E w \in Workers : WorkerExit(w) /\ UNCHANGED rest_vars
    \/ \E w \in Workers : WorkerDepsDone(w) /\ UNCHANGED rest_vars
    \/ \E w \in Workers : \E r \in {"response", "null"} :
          WorkerSendReturns(w, r) /\ SessionAfterSend(w, r)
                                  /\ UNCHANGED <<send_vars, conn_vars, sock_vars, aux_vars>>
    \/ \E w \in Workers : WorkerSendFails(w) /\ UNCHANGED rest_vars
    \/ \E w \in Workers : WorkerSendRaises(w) /\ UNCHANGED rest_vars
    \/ \E w \in Workers : \E ok \in BOOLEAN :
          WorkerReconnectReturns(w, ok) /\ SessionAfterReconnect(w)
                                        /\ UNCHANGED <<send_vars, conn_vars, sock_vars, aux_vars>>
    \/ \E w \in Workers : WorkerReconnectRaises(w) /\ UNCHANGED rest_vars
    \/ \E w \in Workers : WorkerDelayDone(w) /\ UNCHANGED rest_vars
    \/ \E w \in Workers : WorkerDisconnected(w) /\ UNCHANGED rest_vars
    \/ ShutdownBegin /\ UNCHANGED rest_vars
    \/ ShutdownGraceEnds /\ UNCHANGED rest_vars
    \/ ShutdownAwaitEnds /\ UNCHANGED rest_vars

Spec == Init /\ [][Next]_vars

(***************************************************************************)
(* A pool whose server answers every command and that is never shut down:  *)
(* jobs are submitted with queue_job, workers take and send the commands,  *)
(* every send_command returns a response string.  The event loop runs      *)
(* every task that is ready, hence the weak fairness of the worker steps.  *)
(***************************************************************************)
\* The shutdown periods are never read here: they keep their defaults.
LiveInit ==
    /\ Init
    /\ config.grace_period = DISABLE
    /\ config.await_shutdown_period = NO_TIMEOUT

LiveNext ==
    \/ \E commands \in Jobs : queue_job(commands) /\ UNCHANGED rest_vars
    \/ \E w \in Workers : WorkerGet(w) /\ UNCHANGED rest_vars
    \/ \E w \in Workers : WorkerDepsDone(w) /\ UNCHANGED rest_vars
    \/ \E w \in Workers : WorkerSendReturns(w, "response") /\ UNCHANGED rest_vars
    \/ \E w \in Workers : WorkerDelayDone(w) /\ UNCHANGED rest_vars

LiveFairness ==
    \A w \in 1..WorkerCount :
        /\ WF_vars(w \in Workers /\ WorkerGet(w) /\ UNCHANGED rest_vars)
        /\ WF_vars(w \in Workers /\ WorkerDepsDone(w) /\ UNCHANGED rest_vars)
        /\ WF_vars(w \in Workers /\ WorkerSendReturns(w, "response")
                                 /\ UNCHANGED rest_vars)
        /\ WF_vars(w \in Workers /\ WorkerDelayDone(w) /\ UNCHANGED rest_vars)

LiveSpec == LiveInit /\ [][LiveNext]_vars /\ LiveFairness

(***************************************************************************)
(* Direct calls of RCONCommand.topological_sort: the commands, their ids   *)
(* (0 is the default id) and their dependency lists are drawn from every   *)
(* combination over NumSortCommands commands; the input is any list of     *)
(* them without repetition.  No pool is involved.                          *)
(***************************************************************************)
NumSortCommands == 3

SortCmds == 1..NumSortCommands

SortIds == 0..(NumSortCommands - 1)

SortGraphs ==
    {d \in [SortCmds -> ListsOver(SortCmds, NumSortCommands - 1)] :
        \A c \in SortCmds : c \notin Range(d[c])}

SortInit ==
    /\ config = [grace_period |-> DISABLE, await_shutdown_period |-> NO_TIMEOUT,
                 command_delay |-> DISABLE, worker_count |-> 1]
    /\ PoolInit
    /\ result = [c \in Cmds |-> "pending"]
    /\ command_id \in [SortCmds -> SortIds]
    /\ dependencies \in SortGraphs
    /\ sort_input \in ListsOver(SortCmds, NumSortCommands)
    /\ sort_output = [status |-> "none", sorted |-> <<>>]
    /\ ClientInit

SortCall ==
    /\ sort_output.status = "none"
    /\ sort_output' = topological_sort(sort_input)
    /\ UNCHANGED <<cmd_vars, config, queue_vars, flag_vars, worker_vars,
                   shutdown_pc, last_call, submitted, hist_vars, sort_input>>

SortNext == SortCall /\ UNCHANGED rest_vars

SortSpec == SortInit /\ [][SortNext]_vars

(***************************************************************************)
(*                              Properties                                 *)
(***************************************************************************)
Settled(c) == result[c] \in Outcomes

\* v stands before u in the list s.
Before(s, v, u) ==
    \E i, j \in 1..Len(s) : i < j /\ s[i] = v /\ s[j] = u

\* C1 (dependency respect): whenever the text of a command c is written to
\* a socket, the completion event of every command in c.dependencies is
\* already set, in every interleaving and for every worker count.
C1_DependencyRespect ==
    [][\A c \in Cmds :
         sent'[c] > sent[c] =>
            \A d \in Range(dependencies[c]) : completion[d]]_vars

\* A command with a dependency has been sent.
C1_Witness ==
    \E c \in Cmds : dependencies[c] /= <<>> /\ sent[c] > 0

\* C2 (single settlement): once the result future of a command holds an
\* outcome, no later set_command_result or set_command_error call, from a
\* worker or from shutdown, changes the future or the completion event.
C2_SingleSettlement ==
    [][\A c \in Cmds :
         Settled(c) => result'[c] = result[c] /\ completion'[c] = completion[c]]_vars

\* shutdown() called set_command_error on a command that a worker had
\* settled with the server's response, and the response is still there.
C2_Witness ==
    \E c \in force_failed : result[c] = Response /\ completion[c]

\* C3 (completion signal): a command's completion event is set exactly when
\* an outcome has been recorded for it: once a worker has finished it
\* (response, AuthLost or transport error) or shutdown has force-failed it,
\* with or without a result future.
C3_CompletionIffOutcome ==
    \A c \in Cmds :
        completion[c] <=> (handled[c] /= {} \/ c \in force_failed)

\* C4 (at most once on transport error): when send_command raises
\* TimeoutError or ConnectionError for a command, the command is settled
\* with that error, nothing is put on the queue, and the command's text is
\* never written again.
C4_AtMostOnceOnTransportError ==
    [][\A c \in Cmds :
         /\ ("error" \in handled'[c] /\ "error" \notin handled[c]) =>
                /\ completion'[c]
                /\ result'[c] \in {TransportError, "absent"}
                /\ enqueued' = enqueued
         /\ "error" \in handled[c] => sent'[c] = sent[c]]_vars

\* Some queue_command or queue_job call is made in this step.
SubmitCall ==
    \/ \E c \in Cmds : queue_command(c)
    \/ \E commands \in Jobs : queue_job(commands)

\* C5 (rejection after shutdown): every queue_command and queue_job call
\* made while pool_should_shutdown is set fails with the shutting-down
\* error and leaves the queue unchanged, in whatever phase shutdown() is.
C5_RejectAfterShutdown ==
    [][(pool_should_shutdown /\ SubmitCall) =>
          /\ last_call' = ShuttingDownError
          /\ queue' = queue
          /\ unfinished_tasks' = unfinished_tasks
          /\ enqueued' = enqueued]_vars

\* A call was rejected while shutdown() was in its grace wait.
C5_Witness ==
    /\ shutdown_pc = "grace"
    /\ queue /= <<>>
    /\ last_call = ShuttingDownError

\* C6 (force-fail of leftovers): every command shutdown() finds in the
\* queue in its clearing phase is settled with the pool-shut-down error and
\* its text is never written to a socket; the queue is empty afterwards.
C6_LeftoversForceFailed ==
    /\ \A c \in force_failed :
          /\ completion[c]
          /\ result[c] \in {PoolShutDown, "absent"}
          /\ sent[c] = 0
    /\ shutdown_pc \in {"await", "done"} => queue = <<>>

\* C7 (no command left pending): when shutdown() has returned, every
\* command that was accepted and has a result future is settled.
C7_NothingPendingAfterShutdown ==
    shutdown_pc = "done" =>
        \A c \in Cmds :
            (enqueued[c] > 0 /\ result[c] /= "absent") => Settled(c)

\* C8 (workers finished at return): when shutdown() returns every worker
\* task has finished and the queue is empty and closed; after that no
\* worker takes a command or writes one.
C8_WorkersFinishedAtReturn ==
    [][/\ shutdown_pc' = "done" =>
            /\ \A w \in Workers : worker_pc'[w] \in {"done", "raised", "cancelled"}
            /\ queue' = <<>>
            /\ is_shutdown'
       /\ shutdown_pc = "done" =>
            /\ worker_pc' = worker_pc
            /\ queue' = queue
            /\ sent' = sent]_vars

\* shutdown() has returned; one worker had exited on its own after sending
\* a command, another was cancelled.
C8_Witness ==
    /\ shutdown_pc = "done"
    /\ \E c \in Cmds : sent[c] > 0
    /\ \E w \in Workers : worker_pc[w] = "done"
    /\ \E w \in Workers : worker_pc[w] = "cancelled"

\* A worker is waiting for a dependency whose completion is not set.
BlockedOnDependency(w) ==
    /\ worker_pc[w] = "deps"
    /\ \E d \in Range(dependencies[worker_cmd[w]]) : ~completion[d]

\* C9 (job deadlock freedom): with a server that answers every command and
\* no shutdown, jobs submitted through queue_job never leave every worker
\* blocked in a dependency wait.
C9_NeverAllWorkersBlocked ==
    ~(\A w \in Workers : BlockedOnDependency(w))

\* C10 (topological order): when topological_sort(S) succeeds, the result
\* holds exactly the commands of S, each once, and every dependency of a
\* command of S stands before it.
C10_SortIsOrderedPermutation ==
    sort_output.status = "ok" =>
        /\ Len(sort_output.sorted) = Len(sort_input)
        /\ Range(sort_output.sorted) = Range(sort_input)
        /\ \A u \in Range(sort_input) :
              \A v \in Range(dependencies[u]) :
                 Before(sort_output.sorted, v, u)

\* The commands reached from u by following dependencies, in 1..n steps.
RECURSIVE ReachedIn(_, _)
ReachedIn(u, n) ==
    IF n = 0 THEN {}
    ELSE LET near == ReachedIn(u, n - 1)
         IN  Range(dependencies[u]) \cup near
                \cup UNION {Range(dependencies[v]) : v \in near}

\* The list holds a command that depends, directly or not, on itself.
HasCycle(commands) ==
    \E u \in Range(commands) : u \in ReachedIn(u, Len(dependencies))

\* Two commands of the list share an id other than the default id 0.
SharesNonzeroId(commands) ==
    \E i, j \in 1..Len(commands) :
        /\ i /= j
        /\ command_id[commands[i]] = command_id[commands[j]]
        /\ command_id[commands[i]] /= 0

\* C11 (sort failure conditions): topological_sort(S) fails exactly when S
\* holds a dependency cycle or two commands that share a nonzero id; every
\* other input, commands with the default id 0 included, gets an ordering.
C11_SortFailsIffCycleOrDuplicate ==
    sort_output.status /= "none" =>
        (sort_output.status /= "ok"
            <=> (HasCycle(sort_input) \/ SharesNonzeroId(sort_input)))

(***************************************************************************)
(* Submissions alone: callers build NumSortCommands commands (ids,         *)
(* dependency lists) and hand them to queue_command and queue_job of a     *)
(* pool that is not shutting down; every command object is submitted once. *)
(* No worker takes anything, so the queue shows what the calls put there.  *)
(***************************************************************************)
SortJobs == ListsOver(SortCmds, NumSortCommands)

JobInit ==
    /\ config = [grace_period |-> DISABLE, await_shutdown_period |-> NO_TIMEOUT,
                 command_delay |-> DISABLE, worker_count |-> 1]
    /\ PoolInit
    /\ result = [c \in Cmds |-> "pending"]
    /\ command_id \in [SortCmds -> SortIds]
    /\ dependencies \in SortGraphs
    /\ sort_input = <<>>
    /\ sort_output = [status |-> "none", sorted |-> <<>>]
    /\ ClientInit

JobNext ==
    \/ \E c \in SortCmds : queue_command(c) /\ UNCHANGED rest_vars
    \/ \E commands \in SortJobs : queue_job(commands) /\ UNCHANGED rest_vars

JobSpec == JobInit /\ [][JobNext]_vars

\* p lists exactly the commands of the list commands, each once, every
\* command behind those of its dependencies that are in the list.
IsSortedJob(p, commands) ==
    /\ Len(p) = Len(commands)
    /\ Range(p) = Range(commands)
    /\ \A u \in Range(commands) :
          \A v \in Range(dependencies[u]) \cap Range(commands) : Before(p, v, u)

\* C12 (job submission is all or nothing): a queue_job call that fails
\* leaves the queue as it was; one that succeeds leaves the earlier items
\* where they were and puts the commands of the job behind them in
\* consecutive positions, in sorted order, nothing between them.
C12_JobAllOrNothing ==
    [][\A commands \in SortJobs :
         queue_job(commands) =>
            IF last_call' /= "ok"
            THEN queue' = queue /\ unfinished_tasks' = unfinished_tasks
            ELSE /\ Len(queue') >= Len(queue) + Len(commands)
                 /\ SubSeq(queue', 1, Len(queue)) = queue
                 /\ \E i \in Len(queue)..(Len(queue') - Len(commands)) :
                       IsSortedJob(SubSeq(queue', i + 1, i + Len(commands)),
                                   commands)]_vars

(***************************************************************************)
(* SocketClient.send_command, frame by frame.  A frame is [id, body]; the  *)
(* server's answer to one request is a script of frames.  The worker that  *)
(* owns the client is worker 1; it takes command 1 from the queue and      *)
(* calls send_command, whose steps are the actions below (WorkerGet stands *)
(* for the call up to the write of the command packet).                    *)
(***************************************************************************)
MaxFrames == 4

\* Response ids the server may put on a frame: -1, the ids of the request
\* and of its dummy packet, and those of a neighbouring request.
DummyOffset == 1000
FrameIds == {-1, 2, 3, 2 + DummyOffset, 3 + DummyOffset}
Bodies == {"a", "b"}
Frames == [id : FrameIds, body : Bodies]
Scripts == UNION {[1..n -> Frames] : n \in 0..MaxFrames}

\* "".join(response_parts)
RECURSIVE Join(_)
Join(parts) == IF parts = <<>> THEN "" ELSE Head(parts) \o Join(Tail(parts))

Returned(kind, value) ==
    /\ send_pc' = "returned"
    /\ send_result' = [kind |-> kind, value |-> value]

Raised(kind) ==
    /\ send_pc' = "raised"
    /\ send_result' = [kind |-> kind, value |-> ""]

\* send_command from the request id increment to the first read: the
\* command packet goes out with the new id, the dummy packet with id + 1000.
SendStart(w) ==
    /\ worker_pc[w] = "send"
    /\ send_pc = "idle"
    /\ request_id' = request_id + 1
    /\ response_parts' = <<>>
    /\ send_pc' = "read"
    /\ UNCHANGED <<script, stream, send_result>>

\* A read loop that takes every frame of another id for the terminator.
SendReadFrame_StopAtOther(w) ==
    /\ worker_pc[w] = "send"
    /\ send_pc = "read"
    /\ stream /= <<>>
    /\ stream' = Tail(stream)
    /\ IF Head(stream).id = -1
       THEN Returned("null", "") /\ UNCHANGED response_parts
       ELSE IF Head(stream).id = request_id
       THEN /\ response_parts' = Append(response_parts, Head(stream).body)
            /\ UNCHANGED <<send_pc, send_result>>
       ELSE Returned("str", Join(response_parts)) /\ UNCHANGED response_parts
    /\ UNCHANGED <<request_id, script>>

\* One round of the read loop: _read_response returns the next frame.
SendReadFrame(w) ==
    /\ worker_pc[w] = "send"
    /\ send_pc = "read"
    /\ stream /= <<>>
    /\ LET response_id == Head(stream).id
           response_body == Head(stream).body
           dummy_request_id == request_id + DummyOffset
       IN  /\ stream' = Tail(stream)
           /\ IF response_id = -1
              THEN Returned("null", "") /\ UNCHANGED response_parts
              ELSE IF response_id = dummy_request_id
              THEN Returned("str", Join(response_parts))
                   /\ UNCHANGED response_parts
              ELSE IF response_id = request_id
              THEN /\ response_parts' = Append(response_parts, response_body)
                   /\ UNCHANGED <<send_pc, send_result>>
              ELSE UNCHANGED <<response_parts, send_pc, send_result>>
    /\ UNCHANGED <<request_id, script>>

\* The server closed the stream: readexactly raises IncompleteReadError.
SendShortRead(w) ==
    /\ worker_pc[w] = "send"
    /\ send_pc = "read"
    /\ stream = <<>>
    /\ Raised("IncompleteReadError")
    /\ UNCHANGED <<request_id, script, stream, response_parts>>

\* Nothing arrives within the socket timeout, or the connection is reset.
SendTransportError(w, kind) ==
    /\ worker_pc[w] = "send"
    /\ send_pc = "read"
    /\ stream = <<>>
    /\ Raised(kind)
    /\ UNCHANGED <<request_id, script, stream, response_parts>>


\* The worker's code behind `await client.send_command(...)`: what it does
\* with the value returned or the exception raised.
WorkerAfterSend(w) ==
    /\ send_pc \in {"returned", "raised"}
    /\ IF send_pc = "returned"
       THEN WorkerSendReturns(w, IF send_result.kind = "null"
                                 THEN "null" ELSE "response")
       ELSE IF send_result.kind \in {"TimeoutError", "ConnectionError"}
       THEN WorkerSendFails(w)
       ELSE WorkerSendRaises(w)

pool_vars == <<cmd_vars, config, queue_vars, flag_vars, worker_vars,
               shutdown_pc, last_call, submitted, hist_vars, sort_vars,
               aux_vars>>

SendInit ==
    /\ config = [grace_period |-> DISABLE, await_shutdown_period |-> NO_TIMEOUT,
                 command_delay |-> DISABLE, worker_count |-> 1]
    /\ PoolInit
    /\ command_id = [c \in Cmds |-> c]
    /\ dependencies = [c \in Cmds |-> <<>>]
    /\ result \in ResultChoices
    /\ sort_input = <<>>
    /\ sort_output = [status |-> "none", sorted |-> <<>>]
    /\ request_id \in {1, 2}
    /\ script \in Scripts
    /\ stream = script
    /\ response_parts = <<>>
    /\ send_pc = "idle"
    /\ send_result = NoResult
    /\ session_lost = {}
    /\ SockInit
    /\ shutdown_calls = 0
    /\ fifo_log = NoLog
    /\ codec = NoPacket
    /\ conn = [i \in Workers |-> ConnectedClient]
    /\ connect_pc = "returned"
    /\ connect_error = "none"
    /\ num_retries = INFINITE

SendNext ==
    \/ \E c \in {1} : queue_command(c) /\ UNCHANGED rest_vars
    \/ \E w \in Workers : WorkerGet(w) /\ UNCHANGED rest_vars
    \/ \E w \in Workers : SendStart(w) /\ UNCHANGED <<pool_vars, session_lost, conn_vars, sock_vars>>
    \/ \E w \in Workers : SendReadFrame(w) /\ UNCHANGED <<pool_vars, session_lost, conn_vars, sock_vars>>
    \/ \E w \in Workers : SendShortRead(w) /\ UNCHANGED <<pool_vars, session_lost, conn_vars, sock_vars>>
    \/ \E w \in Workers : \E kind \in {"TimeoutError", "ConnectionError"} :
          SendTransportError(w, kind) /\ UNCHANGED <<pool_vars, session_lost, conn_vars, sock_vars>>
    \/ \E w \in Workers : WorkerAfterSend(w) /\ UNCHANGED rest_vars
    \/ \E w \in Workers : \E ok \in BOOLEAN :
          WorkerReconnectReturns(w, ok) /\ UNCHANGED rest_vars
    \/ \E w \in Workers : WorkerReconnectRaises(w) /\ UNCHANGED rest_vars

SendSpec == SendInit /\ [][SendNext]_vars

\* The first frame of s that ends the read for request R (id -1 or the
\* dummy's id R + 1000); 0 when s has none.
EndIndex(s, R) ==
    LET ends == {i \in 1..Len(s) : s[i].id \in {-1, R + DummyOffset}}
    IN  IF ends = {} THEN 0 ELSE Min(ends)

\* The bodies of the frames with id R among the first n frames of s, in
\* arrival order, concatenated.
RECURSIVE BodiesOf(_, _, _)
BodiesOf(s, n, R) ==
    IF n = 0 THEN ""
    ELSE BodiesOf(s, n - 1, R) \o (IF s[n].id = R THEN s[n].body ELSE "")

\* C13 (multi-packet reassembly): send_command with request id R returns
\* only at the first frame with id R + 1000 or -1; at the frame with id
\* R + 1000 it returns the bodies of the frames with id R read before it,
\* concatenated in arrival order (the empty string when there is none);
\* frames with other ids are passed over.  It raises only when the script
\* has no such end frame.
C13_Reassembly ==
    LET k == EndIndex(script, request_id)
    IN  /\ send_pc = "returned" =>
              /\ k > 0
              /\ Len(stream) = Len(script) - k
              /\ script[k].id = request_id + DummyOffset =>
                    send_result = [kind |-> "str",
                                   value |-> BodiesOf(script, k - 1, request_id)]
        /\ send_pc = "raised" => k = 0

\* Two parts in arrival order, a frame of another request between them
\* passed over, then the terminator.
C13_Witness ==
    /\ send_pc = "returned"
    /\ send_result = [kind |-> "str", value |-> "ab"]
    /\ Len(script) = 4
    /\ script[2].id \notin {-1, request_id, request_id + DummyOffset}

\* C14 (session failure during a response): when a frame with response id
\* -1 is read before the terminator, send_command returns None whatever
\* parts it had collected, and the worker settles the command with the
\* authentication error, never with a response string.
C14_NullOnSessionFailure ==
    LET k == EndIndex(script, request_id)
    IN  (send_pc = "returned" /\ k > 0 /\ script[k].id = -1) =>
            /\ send_result = [kind |-> "null", value |-> ""]
            /\ handled[1] /= {} =>
                  /\ handled[1] = {"null"}
                  /\ completion[1]
                  /\ result[1] \in {AuthLost, "absent"}

\* C15 (AuthLost triggers reconnect): when send_command returns None for a
\* command, the worker fails the command with the authentication error and
\* writes no further command before it has called reconnect().
C15_ReconnectAfterAuthLost ==
    [][\A w \in Workers :
         /\ (worker_pc[w] = "send" /\ w \in session_lost' \ session_lost) =>
                result'[worker_cmd[w]] \in {AuthLost, "absent"}
         /\ (worker_pc'[w] = "send" /\ worker_pc[w] /= "send") =>
                w \notin session_lost]_vars

\* The command worker w has in hand when it takes its next step: the one it
\* holds, or the head of the queue when it is about to take one.
CurrentCommand(w) ==
    IF worker_pc[w] = "get" /\ queue /= <<>> THEN Head(queue) ELSE worker_cmd[w]

\* C16 (transient disconnect is survived): when send_command raises
\* TimeoutError or ConnectionError the worker goes on to reconnect(); the
\* step fails the current command if it was pending and changes no other
\* command, no other worker and no queued item; when reconnect() returns
\* with a new session the worker is back at queue.get().
C16_OnlyCurrentCommandFails ==
    [][\A w \in Workers :
         /\ WorkerSendFails(w) => worker_pc'[w] = "reconnect"
         /\ (worker_pc[w] \in {"get", "deps", "send"}
                /\ worker_pc'[w] = "reconnect") =>
              LET c == CurrentCommand(w)
              IN  /\ result'[c] = IF result[c] = "pending"
                                  THEN TransportError ELSE result[c]
                  /\ \A d \in Cmds \ {c} :
                        result'[d] = result[d] /\ completion'[d] = completion[d]
                  /\ \A v \in Workers \ {w} :
                        worker_pc'[v] = worker_pc[v]
                            /\ worker_cmd'[v] = worker_cmd[v]
                  /\ queue' = IF worker_pc[w] = "get" THEN Tail(queue) ELSE queue
         /\ (worker_pc[w] = "reconnect" /\ connected'[w]
                /\ worker_pc'[w] \notin {"reconnect", "cancelled"}) =>
              worker_pc'[w] = "get"]_vars

\* The only worker failed command 1 on a transport error, reconnected, and
\* then got the server's response for command 2, which waited for command 1.
C16_Witness ==
    /\ config.worker_count = 1
    /\ dependencies[2] = <<1>>
    /\ result[1] = TransportError
    /\ handled[1] = {"error"}
    /\ result[2] = Response
    /\ handled[2] = {"response"}

\* C17 (short read): when the server closes the stream while a worker is
\* in send_command, the worker settles the current command with an error,
\* marks the queue item done, goes on to reconnect() and keeps running.
C17_ShortReadHandled ==
    [][\A w \in Workers :
         (/\ send_pc = "raised"
          /\ send_result.kind = "IncompleteReadError"
          /\ worker_pc[w] = "send"
          /\ worker_pc'[w] /= "send") =>
            /\ worker_pc'[w] = "reconnect"
            /\ unfinished_tasks' = unfinished_tasks - 1
            /\ completion'[worker_cmd[w]]
            /\ result'[worker_cmd[w]] \in {TransportError, "absent"}]_vars

(***************************************************************************)
(* RCONWorkerPool.connect: worker_count get_new_client calls run as tasks  *)
(* under asyncio.gather.  Each call opens a connection with                *)
(* _try_connection, authenticates with _send_auth, and returns a client or *)
(* raises.  gather hands the first exception of a child to connect() and   *)
(* leaves the other children running.  conn[i].pc is the await child i is  *)
(* suspended in:                                                           *)
(*   "try"      open_connection inside _try_connection                     *)
(*   "auth"     _send_auth, waiting for the response                       *)
(*   "closing"  writer.wait_closed() after a failed handshake              *)
(*   "ok"       returned a client; "failed": raised conn[i].error          *)
(***************************************************************************)
MaxAttempts == 3
RetryBudgets == {INFINITE, 0, 1}

NewCall ==
    [pc |-> "try", open |-> FALSE, attempt |-> 0, calls |-> 0,
     written |-> <<>>, responses |-> <<>>, error |-> "none",
     request_id |-> 0]

\* Child i ends with exception e; the first such exception is the one
\* connect() raises (IncorrectPassword is wrapped in a new
\* IncorrectPassword, the others pass through).
ChildRaises(i, e, c) ==
    /\ conn' = [conn EXCEPT ![i] = [c EXCEPT !.pc = "failed", !.error = e]]
    /\ IF connect_pc = "gather"
       THEN connect_pc' = "raised" /\ connect_error' = e
       ELSE UNCHANGED <<connect_pc, connect_error>>

\* open_connection raised e.  TimeoutError and ConnectionError are caught
\* and counted; when the budget is spent the loop ends and ConnectionError
\* ("Failed to connect after n attempts") is raised.  Anything else leaves
\* _try_connection at once.
OpenConnectionFails(i, e) ==
    /\ conn[i].pc = "try"
    /\ conn[i].calls < MaxAttempts
    /\ LET c == [conn[i] EXCEPT !.calls = @ + 1]
       IN  IF e \notin {"TimeoutError", "ConnectionError"}
           THEN ChildRaises(i, e, c)
           ELSE LET attempt == conn[i].attempt + 1
                IN  IF num_retries /= INFINITE /\ attempt > num_retries
                    THEN ChildRaises(i, "ConnectionFailed",
                                     [c EXCEPT !.attempt = attempt])
                    ELSE /\ conn' = [conn EXCEPT ![i] =
                                        [c EXCEPT !.attempt = attempt]]
                         /\ UNCHANGED <<connect_pc, connect_error>>
    /\ UNCHANGED <<pool_vars, send_vars, session_lost, sock_vars, num_retries>>

\* open_connection returned the streams; _send_auth writes the AUTH packet.
OpenConnectionSucceeds(i) ==
    /\ conn[i].pc = "try"
    /\ conn[i].calls < MaxAttempts
    /\ conn' = [conn EXCEPT ![i] =
                  [@ EXCEPT !.calls = @ + 1, !.open = TRUE,
                            !.written = Append(@, AuthFrame), !.pc = "auth"]]
    /\ UNCHANGED <<pool_vars, send_vars, session_lost, sock_vars, connect_pc,
                   connect_error, num_retries>>

\* _send_auth read the response: id -1 makes it return None, and
\* get_new_client closes the streams before it raises; any other id makes
\* get_new_client return the client.
AuthResponse(i, response_id) ==
    /\ conn[i].pc = "auth"
    /\ LET c == [conn[i] EXCEPT !.responses = Append(@, response_id)]
       IN  conn' = [conn EXCEPT ![i] =
                IF response_id = -1
                THEN [c EXCEPT !.open = FALSE, !.pc = "closing",
                               !.error = "IncorrectPassword"]
                ELSE [c EXCEPT !.pc = "ok", !.request_id = 1]]
    /\ UNCHANGED <<pool_vars, send_vars, session_lost, sock_vars, connect_pc,
                   connect_error, num_retries>>

\* _send_auth raised TimeoutError or ConnectionError: get_new_client closes
\* the streams and raises it again.
AuthTransportError(i, e) ==
    /\ conn[i].pc = "auth"
    /\ conn' = [conn EXCEPT ![i] =
                  [@ EXCEPT !.open = FALSE, !.pc = "closing", !.error = e]]
    /\ UNCHANGED <<pool_vars, send_vars, session_lost, sock_vars, connect_pc,
                   connect_error, num_retries>>

\* The server closed the stream before the auth response was complete:
\* readexactly raises IncompleteReadError, which get_new_client does not
\* catch.
AuthShortRead(i) ==
    /\ conn[i].pc = "auth"
    /\ ChildRaises(i, "IncompleteReadError", conn[i])
    /\ UNCHANGED <<pool_vars, send_vars, session_lost, sock_vars, num_retries>>

\* writer.wait_closed() returned: get_new_client raises.
CloseDone(i) ==
    /\ conn[i].pc = "closing"
    /\ ChildRaises(i, conn[i].error, conn[i])
    /\ UNCHANGED <<pool_vars, send_vars, session_lost, sock_vars, num_retries>>

\* gather returned all the clients: connect() creates one worker task per
\* client and returns.
ConnectReturns ==
    /\ connect_pc = "gather"
    /\ \A i \in Workers : conn[i].pc = "ok"
    /\ connect_pc' = "returned"
    /\ worker_pc' = [w \in Workers |-> "get"]
    /\ connected' = [w \in Workers |-> TRUE]
    /\ UNCHANGED <<cmd_vars, config, queue_vars, flag_vars, worker_cmd,
                   shutdown_pc, last_call, submitted, hist_vars, sort_vars,
                   send_vars, session_lost, sock_vars, conn, connect_error,
                   num_retries, aux_vars>>


ConnectInit ==
    /\ config \in Configs
    /\ queue = <<>>
    /\ unfinished_tasks = 0
    /\ is_shutdown = FALSE
    /\ pool_should_shutdown = FALSE
    /\ worker_should_shutdown = FALSE
    /\ worker_pc = [w \in Workers |-> "not created"]
    /\ worker_cmd = [w \in Workers |-> NoCmd]
    /\ connected = [w \in Workers |-> FALSE]
    /\ shutdown_pc = "idle"
    /\ last_call = "none"
    /\ submitted = {}
    /\ enqueued = [c \in Cmds |-> 0]
    /\ sent = [c \in Cmds |-> 0]
    /\ force_failed = {}
    /\ handled = [c \in Cmds |-> {}]
    /\ command_id = [c \in Cmds |-> c]
    /\ dependencies = [c \in Cmds |-> <<>>]
    /\ result = [c \in Cmds |-> ""]
    /\ completion = [c \in Cmds |-> FALSE]
    /\ sort_input = <<>>
    /\ sort_output = [status |-> "none", sorted |-> <<>>]
    /\ request_id = 1
    /\ script = <<>>
    /\ stream = <<>>
    /\ response_parts = <<>>
    /\ send_pc = "idle"
    /\ send_result = NoResult
    /\ session_lost = {}
    /\ SockInit
    /\ shutdown_calls = 0
    /\ fifo_log = NoLog
    /\ codec = NoPacket
    /\ conn = [i \in Workers |-> NewCall]
    /\ connect_pc = "gather"
    /\ connect_error = "none"
    /\ num_retries \in RetryBudgets

ConnectNext ==
    \/ \E i \in Workers :
          \E e \in {"TimeoutError", "ConnectionError", "OSError"} :
             OpenConnectionFails(i, e)
    \/ \E i \in Workers : OpenConnectionSucceeds(i)
    \/ \E i \in Workers : \E response_id \in {-1, 0} :
          AuthResponse(i, response_id)
    \/ \E i \in Workers : \E e \in {"TimeoutError", "ConnectionError"} :
          AuthTransportError(i, e)
    \/ \E i \in Workers : AuthShortRead(i)
    \/ \E i \in Workers : CloseDone(i)
    \/ ConnectReturns

ConnectSpec == ConnectInit /\ [][ConnectNext]_vars


\* Some connection of this connect() call read an auth response with id -1.
BadPasswordSeen == \E i \in Workers : -1 \in Range(conn[i].responses)

\* C18: the handshake of every connection writes one AUTH frame with id 0
\* and reads at most one response, exactly one once it is over; if any
\* connection read the response id -1, connect() does not return and the
\* error it fails with is IncorrectPassword; as long as connect() has not
\* returned no worker task exists; when it returns, every client is
\* authenticated and its next request id is 1.
C18_WrongPasswordAtStart ==
    /\ \A i \in Workers :
          /\ conn[i].written \in {<<>>, <<AuthFrame>>}
          /\ Len(conn[i].responses) <= 1
          /\ conn[i].pc \in {"ok", "closing"} /\ conn[i].error /= "TimeoutError"
                /\ conn[i].error /= "ConnectionError"
                => conn[i].written = <<AuthFrame>> /\ Len(conn[i].responses) = 1
    /\ BadPasswordSeen =>
          /\ connect_pc /= "returned"
          /\ connect_pc = "raised" => connect_error = "IncorrectPassword"
    /\ connect_pc /= "returned" =>
          \A w \in Workers : worker_pc[w] = "not created"
    /\ connect_pc = "returned" =>
          \A w \in Workers :
             /\ connected[w]
             /\ conn[w].request_id = 1
             /\ conn[w].responses = <<0>>


\* Every get_new_client call of this connect() has returned or raised.
AllCallsOver == \A i \in Workers : conn[i].pc \in {"ok", "failed"}

\* C19: when connect() has failed with IncorrectPassword or with a transport
\* error and every get_new_client call it started is over, no connection
\* the call opened is still open.
C19_FailedStartLeavesNothingOpen ==
    (/\ connect_pc = "raised"
     /\ connect_error \in {"IncorrectPassword", "TimeoutError",
                           "ConnectionError", "ConnectionFailed"}
     /\ AllCallsOver)
    => \A i \in Workers : ~conn[i].open


\* The errors of an open_connection attempt that the claim counts as
\* timeouts and I/O errors.
ConnectErrors == {"TimeoutError", "ConnectionError", "OSError"}

\* C20: while a connection is being opened, an attempt that fails with a
\* timeout or an I/O error is followed by another attempt as long as the
\* budget allows; with a finite budget of n retries no more than n + 1
\* attempts are made and the call fails with ConnectionFailed exactly when
\* attempt n + 1 has failed; with the infinite budget the call never fails
\* with ConnectionFailed; the first attempt that succeeds is the last.
C20_RetryBudget ==
    [][\A i \in Workers :
        /\ num_retries /= INFINITE => conn'[i].calls <= num_retries + 1
        /\ conn'[i].error = "ConnectionFailed" =>
              /\ num_retries /= INFINITE
              /\ conn'[i].calls = num_retries + 1
              /\ ~conn'[i].open
        /\ \A e \in ConnectErrors :
              OpenConnectionFails(i, e) =>
                 IF num_retries = INFINITE \/ conn[i].calls < num_retries
                 THEN conn'[i].pc = "try"
                 ELSE conn'[i].pc = "failed"
                      /\ conn'[i].error = "ConnectionFailed"
        /\ OpenConnectionSucceeds(i) =>
              /\ conn'[i].pc /= "try"
              /\ conn'[i].open
        /\ conn[i].pc /= "try" => conn'[i].calls = conn[i].calls
      ]_vars

(***************************************************************************)
(* One SocketClient over its lifetime, in the hands of the worker that     *)
(* owns it (worker 1): send_command packet by packet, disconnect() and     *)
(* reconnect() await by await, and the server at the other end.  A packet  *)
(* on the wire is [session, id, type]: session counts the authentications  *)
(* of the client, so that it names the streams the packet was written to.  *)
(***************************************************************************)
CommandPacket(rid) == [session |-> client.session, id |-> rid, type |-> "COMMAND"]
\* A dummy packet that reuses the id of the command packet.
DummyPacket_SameId(rid) ==
    [session |-> client.session, id |-> rid, type |-> "DUMMY"]
DummyPacket(rid) ==
    [session |-> client.session, id |-> rid + DummyOffset, type |-> "DUMMY"]
\* reconnect() writes the AUTH packet to the streams of the session to come.
AuthPacket == [session |-> client.session + 1, id |-> 0, type |-> "AUTH"]

\* send_command up to the first read: both packets are written, both
\* drain() calls return.
ClientSendStart(w) ==
    /\ SendStart(w)
    /\ wire' = wire \o <<CommandPacket(request_id + 1),
                         DummyPacket(request_id + 1)>>
    /\ client' = [client EXCEPT !.answered = FALSE]
    /\ UNCHANGED <<pool_vars, session_lost, conn_vars>>

\* The drain() after the command packet raises (timeout, connection
\* reset): the dummy packet is never written.
ClientDrainFails(w, kind) ==
    /\ worker_pc[w] = "send"
    /\ send_pc = "idle"
    /\ request_id' = request_id + 1
    /\ wire' = Append(wire, CommandPacket(request_id + 1))
    /\ Raised(kind)
    /\ UNCHANGED <<script, stream, response_parts, client, pool_vars,
                   session_lost, conn_vars>>

(***************************************************************************)
(* The server (Minecraft's RCON thread) answers the packets of a request   *)
(* in order: the command with frames that carry the request id, or with    *)
(* one frame of id -1 when the session is not authenticated; the dummy     *)
(* packet, whose type it does not know, with one frame of the dummy's id.  *)
(* It may stop anywhere: a prefix of the answer stands for a server that   *)
(* hangs or closes the stream.                                             *)
(***************************************************************************)
Prefixes(s) == {SubSeq(s, 1, n) : n \in 0..Len(s)}

Answers(rid) ==
    LET dummy == [id |-> rid + DummyOffset, body |-> "a"]
        part(b) == [id |-> rid, body |-> b]
    IN  UNION {Prefixes(parts \o <<dummy>>) :
                 parts \in {<<>>, <<part("a")>>, <<part("a"), part("b")>>,
                            <<[id |-> -1, body |-> "a"]>>}}

ServerAnswers(w, frames) ==
    /\ worker_pc[w] = "send"
    /\ send_pc = "read"
    /\ ~client.answered
    /\ frames \in Answers(request_id)
    /\ stream' = stream \o frames
    /\ script' = frames
    /\ client' = [client EXCEPT !.answered = TRUE]
    /\ UNCHANGED <<request_id, response_parts, send_pc, send_result, wire,
                   pool_vars, session_lost, conn_vars>>

(***************************************************************************)
(* SocketClient.disconnect and SocketClient.reconnect                      *)
(***************************************************************************)
\* disconnect() up to its await: self._writer.close().
CloseWriter ==
    client' = [client EXCEPT !.open = FALSE, !.pc = "closing"]

\* The worker's `await client.disconnect()` behind its loop.
ClientDisconnectBegin(w) ==
    /\ worker_pc[w] = "disconnect"
    /\ client.pc = "idle"
    /\ CloseWriter
    /\ UNCHANGED <<pool_vars, send_vars, session_lost, conn_vars, wire>>

\* wait_closed() returned, or raised and the error was logged and dropped
\* (close_error): _request_id = -1, and the worker returns.
ClientDisconnectEnds(w, close_error) ==
    /\ worker_pc[w] = "disconnect"
    /\ client.pc = "closing"
    /\ WorkerDisconnected(w)
    /\ request_id' = -1
    /\ client' = [client EXCEPT !.pc = "idle", !.close_error = close_error]
    /\ UNCHANGED <<script, stream, response_parts, send_pc, send_result,
                   session_lost, conn_vars, wire, aux_vars>>

\* reconnect() up to its first await, inside disconnect().
ReconnectBegin(w) ==
    /\ worker_pc[w] = "reconnect"
    /\ client.pc = "idle"
    /\ client' = [client EXCEPT !.open = FALSE, !.pc = "closing",
                                !.new_open = "none", !.attempt = 0,
                                !.calls = 0, !.result = "none"]
    /\ UNCHANGED <<pool_vars, send_vars, session_lost, conn_vars, wire>>

\* A disconnect() that leaves _request_id alone when the close raised.
ReconnectClosed_SkipOnError(w, close_error) ==
    /\ worker_pc[w] = "reconnect"
    /\ client.pc = "closing"
    /\ request_id' = IF close_error THEN request_id ELSE -1
    /\ client' = [client EXCEPT !.pc = "try", !.close_error = close_error]
    /\ UNCHANGED <<pool_vars, script, stream, response_parts, send_pc,
                   send_result, session_lost, conn_vars, wire>>

\* disconnect() ends inside reconnect(): _request_id = -1, then
\* _try_connection starts.
ReconnectClosed(w, close_error) ==
    /\ worker_pc[w] = "reconnect"
    /\ client.pc = "closing"
    /\ request_id' = -1
    /\ client' = [client EXCEPT !.pc = "try", !.close_error = close_error]
    /\ UNCHANGED <<pool_vars, script, stream, response_parts, send_pc,
                   send_result, session_lost, conn_vars, wire>>

\* _try_connection inside reconnect(): as in get_new_client.
ReconnectOpenFails(w, e) ==
    /\ worker_pc[w] = "reconnect"
    /\ client.pc = "try"
    /\ client.calls < MaxAttempts
    /\ LET c == [client EXCEPT !.calls = @ + 1]
       IN  IF e \notin {"TimeoutError", "ConnectionError"}
           THEN client' = [c EXCEPT !.pc = "raised", !.result = e]
           ELSE LET attempt == client.attempt + 1
                IN  IF num_retries /= INFINITE /\ attempt > num_retries
                    THEN client' = [c EXCEPT !.attempt = attempt,
                                             !.pc = "raised",
                                             !.result = "ConnectionFailed"]
                    ELSE client' = [c EXCEPT !.attempt = attempt]
    /\ UNCHANGED <<pool_vars, send_vars, session_lost, conn_vars, wire>>

\* open_connection returned new streams; _send_auth writes the AUTH packet
\* to them.
ReconnectOpenSucceeds(w) ==
    /\ worker_pc[w] = "reconnect"
    /\ client.pc = "try"
    /\ client.calls < MaxAttempts
    /\ client' = [client EXCEPT !.calls = @ + 1, !.new_open = "open",
                                !.pc = "auth"]
    /\ wire' = Append(wire, AuthPacket)
    /\ UNCHANGED <<pool_vars, send_vars, session_lost, conn_vars>>

\* A reconnect() that takes the new streams whatever the auth response is.
ReconnectAuthResponse_IgnoreFailure(w, response_id) ==
    /\ worker_pc[w] = "reconnect"
    /\ client.pc = "auth"
    /\ client' = [client EXCEPT !.open = TRUE, !.new_open = "none",
                                !.session = @ + 1, !.pc = "returned",
                                !.result = "str"]
    /\ request_id' = 1
    /\ stream' = <<>>
    /\ UNCHANGED <<pool_vars, script, response_parts, send_pc, send_result,
                   session_lost, conn_vars, wire>>

\* _send_auth read the response.  Any id but -1: the client takes the new
\* streams and _request_id = 1.  Id -1: the new writer is closed and
\* reconnect() waits for it.
ReconnectAuthResponse(w, response_id) ==
    /\ worker_pc[w] = "reconnect"
    /\ client.pc = "auth"
    /\ IF response_id /= -1
       THEN /\ client' = [client EXCEPT !.open = TRUE, !.new_open = "none",
                                        !.session = @ + 1, !.pc = "returned",
                                        !.result = "str"]
            /\ request_id' = 1
            /\ stream' = <<>>
       ELSE /\ client' = [client EXCEPT !.new_open = "closed",
                                        !.pc = "cleanup"]
            /\ UNCHANGED <<request_id, stream>>
    /\ UNCHANGED <<pool_vars, script, response_parts, send_pc, send_result,
                   session_lost, conn_vars, wire>>

\* wait_closed() of the new writer returned: reconnect() returns None.
ReconnectCleanupDone(w) ==
    /\ worker_pc[w] = "reconnect"
    /\ client.pc = "cleanup"
    /\ client' = [client EXCEPT !.pc = "returned", !.result = "null"]
    /\ UNCHANGED <<pool_vars, send_vars, session_lost, conn_vars, wire>>

\* _send_auth raised (timeout, connection reset, stream closed before the
\* response was complete): reconnect() lets it through.
ReconnectAuthFails(w, e) ==
    /\ worker_pc[w] = "reconnect"
    /\ client.pc = "auth"
    /\ client' = [client EXCEPT !.pc = "raised", !.result = e]
    /\ UNCHANGED <<pool_vars, send_vars, session_lost, conn_vars, wire>>

\* The worker's code behind `await client.reconnect()`.
ClientReconnectEnds(w) ==
    /\ client.pc \in {"returned", "raised"}
    /\ IF client.pc = "returned"
       THEN WorkerReconnectReturns(w, client.result = "str")
       ELSE WorkerReconnectRaises(w)
    /\ client' = [client EXCEPT !.pc = "idle"]
    /\ UNCHANGED <<send_vars, session_lost, conn_vars, wire, aux_vars>>

(***************************************************************************)
(* The client's life: the pool has one worker, callers submit commands     *)
(* without dependencies, the worker sends them, reconnects after transport *)
(* errors, and disconnects when shutdown() tells it to stop.  shutdown()   *)
(* waits for the worker without a time limit, so nothing is cancelled.     *)
(***************************************************************************)
SocketInit ==
    /\ config \in [grace_period : {DISABLE, NO_TIMEOUT},
                   await_shutdown_period : {NO_TIMEOUT},
                   command_delay : {DISABLE},
                   worker_count : {1}]
    /\ PoolInit
    /\ command_id = [c \in Cmds |-> c]
    /\ dependencies = [c \in Cmds |-> <<>>]
    /\ result \in ResultChoices
    /\ sort_input = <<>>
    /\ sort_output = [status |-> "none", sorted |-> <<>>]
    /\ request_id = 1
    /\ script = <<>>
    /\ stream = <<>>
    /\ response_parts = <<>>
    /\ send_pc = "idle"
    /\ send_result = NoResult
    /\ session_lost = {}
    /\ SockInit
    /\ shutdown_calls = 0
    /\ fifo_log = NoLog
    /\ codec = NoPacket
    /\ conn = [i \in Workers |-> ConnectedClient]
    /\ connect_pc = "returned"
    /\ connect_error = "none"
    /\ num_retries \in RetryBudgets

SocketNext ==
    \/ \E c \in Cmds : queue_command(c) /\ UNCHANGED rest_vars
    \/ \E w \in Workers : WorkerGet(w) /\ UNCHANGED rest_vars
    \/ \E w \in Workers : ClientSendStart(w)
    \/ \E w \in Workers : \E kind \in {"TimeoutError", "ConnectionError"} :
          ClientDrainFails(w, kind)
    \/ \E w \in Workers : \E frames \in Answers(request_id) :
          ServerAnswers(w, frames)
    \/ \E w \in Workers :
          SendReadFrame(w)
             /\ UNCHANGED <<pool_vars, session_lost, conn_vars, sock_vars>>
    \/ \E w \in Workers :
          SendShortRead(w)
             /\ UNCHANGED <<pool_vars, session_lost, conn_vars, sock_vars>>
    \/ \E w \in Workers : \E kind \in {"TimeoutError", "ConnectionError"} :
          SendTransportError(w, kind)
             /\ UNCHANGED <<pool_vars, session_lost, conn_vars, sock_vars>>
    \/ \E w \in Workers :
          /\ WorkerAfterSend(w)
          /\ send_pc' = "idle"
          /\ UNCHANGED <<request_id, script, stream, response_parts,
                         send_result, session_lost, conn_vars, sock_vars,
                         aux_vars>>
    \/ \E w \in Workers : ReconnectBegin(w)
    \/ \E w \in Workers : \E close_error \in BOOLEAN :
          ReconnectClosed(w, close_error)
    \/ \E w \in Workers : \E e \in ConnectErrors : ReconnectOpenFails(w, e)
    \/ \E w \in Workers : ReconnectOpenSucceeds(w)
    \/ \E w \in Workers : \E response_id \in {-1, 0} :
          ReconnectAuthResponse(w, response_id)
    \/ \E w \in Workers : ReconnectCleanupDone(w)
    \/ \E w \in Workers :
          \E e \in {"TimeoutError", "ConnectionError", "IncompleteReadError"} :
             ReconnectAuthFails(w, e)
    \/ \E w \in Workers : ClientReconnectEnds(w)
    \/ \E w \in Workers : WorkerExit(w) /\ UNCHANGED rest_vars
    \/ \E w \in Workers : ClientDisconnectBegin(w)
    \/ \E w \in Workers : \E close_error \in BOOLEAN :
          ClientDisconnectEnds(w, close_error)
    \/ ShutdownBegin /\ UNCHANGED rest_vars
    \/ ShutdownGraceEnds /\ UNCHANGED rest_vars
    \/ ShutdownAwaitEnds /\ UNCHANGED rest_vars

SocketSpec == SocketInit /\ [][SocketNext]_vars

C22_Disconnect ==
    [][\A w \in Workers :
         /\ (client.pc = "closing" /\ client'.pc /= "closing") =>
               request_id' = -1
         /\ (request_id = -1 /\ WorkerGet(w)) =>
               /\ wire' = wire /\ sent' = sent
               /\ worker_pc'[w] = "reconnect"
               /\ "error" \in handled'[worker_cmd'[w]]
               /\ result'[worker_cmd'[w]] \in {TransportError, "absent"}
         /\ (request_id = -1 /\ wire' /= wire) =>
               wire' = Append(wire, AuthPacket)
         /\ (request_id = -1 /\ request_id' /= -1) =>
               /\ request_id' = 1
               /\ client.pc = "auth" /\ client'.result = "str"
      ]_vars

\* Closing the old stream raised inside a reconnect() that the server then
\* rejected; the send_command of the next command failed without writing.
C22_Witness ==
    /\ client.close_error
    /\ client.result = "null"
    /\ request_id = -1
    /\ worker_pc[1] = "reconnect"
    /\ sent[worker_cmd[1]] = 0
    /\ "error" \in handled[worker_cmd[1]]
    /\ Len(wire) > 0

(***************************************************************************)
(* shutdown() called again.  Once a call has returned the caller may make  *)
(* another one, which runs the same code from the top.                     *)
(***************************************************************************)
MaxShutdowns == 2

\* shutdown() has returned to its caller.
ShutdownReturned ==
    /\ shutdown_pc = "done"
    /\ shutdown_calls + 1 < MaxShutdowns
    /\ shutdown_calls' = shutdown_calls + 1
    /\ shutdown_pc' = "idle"
    /\ UNCHANGED <<cmd_vars, config, queue_vars, flag_vars, worker_vars,
                   last_call, submitted, hist_vars, sort_vars, client_vars,
                   codec, fifo_log>>

TwiceNext ==
    \/ Next
    \/ ShutdownReturned

TwiceSpec == Init /\ [][TwiceNext]_vars

\* shutdown() takes a step.
ShutdownStep == ShutdownBegin \/ ShutdownGraceEnds \/ ShutdownAwaitEnds

\* C23 (shutdown idempotence): a shutdown() call made after an earlier one
\* has returned changes no command outcome, no shutdown flag, nothing of
\* the queue and no worker or connection state, and none of its waits
\* blocks for good: it returns, for every grace_period and
\* await_shutdown_period.
C23_SecondShutdownIsNoOp ==
    [][shutdown_calls >= 1 =>
         /\ ShutdownStep =>
               /\ result' = result /\ completion' = completion
               /\ pool_should_shutdown' = pool_should_shutdown
               /\ worker_should_shutdown' = worker_should_shutdown
               /\ queue' = queue /\ unfinished_tasks' = unfinished_tasks
               /\ is_shutdown' = is_shutdown
               /\ worker_pc' = worker_pc /\ worker_cmd' = worker_cmd
               /\ connected' = connected
               /\ force_failed' = force_failed
         /\ shutdown_pc = "grace" =>
               (unfinished_tasks = 0 \/ config.grace_period /= NO_TIMEOUT)
         /\ shutdown_pc = "await" =>
               \/ \A w \in Workers : ~Running(w)
               \/ config.await_shutdown_period /= NO_TIMEOUT
      ]_vars

\* A second shutdown() has returned in a pool whose first shutdown() had
\* force-failed a command and cancelled a worker.
C23_Witness ==
    /\ shutdown_calls = 1
    /\ shutdown_pc = "done"
    /\ force_failed /= {}
    /\ unfinished_tasks > 0
    /\ \E w \in Workers : worker_pc[w] = "cancelled"
    /\ \E w \in Workers : worker_pc[w] = "done"

\* C24 (delivery at most once overall): when every command object is
\* submitted once, alone or as a member of one job, each command is put on
\* the queue at most once and its text is written to a socket at most once
\* during the life of the pool, also when a member of a job depends on a
\* command that was submitted before, outside the job.
C24_AtMostOnceOverall ==
    \A c \in Cmds : enqueued[c] <= 1 /\ sent[c] <= 1

(***************************************************************************)
(* The packet codec: SocketClient._format_packet and _read_response, byte  *)
(* by byte.  A byte is a number in 0..255, a string is the list of its     *)
(* code points, a 32-bit integer is packed little-endian in two's          *)
(* complement as struct.pack("<i", n) does.                                *)
(***************************************************************************)
MaxBody == 2

PACKET_METADATA_SIZE == 10

\* struct.pack("<i", n) for n in -2^31 .. 2^31 - 1.  The sum n + 2^31 is
\* formed in two steps, so that every intermediate value fits 32 bits.
Pack32(n) ==
    LET m == IF n >= 0 THEN n ELSE (n + 2147483647) + 1
        top == (m \div 16777216) + (IF n >= 0 THEN 0 ELSE 128)
    IN  <<m % 256, (m \div 256) % 256, (m \div 65536) % 256, top>>

\* struct.unpack("<i", b)[0]
Unpack32(b) ==
    LET low == b[1] + 256 * b[2] + 65536 * b[3]
    IN  IF b[4] < 128
        THEN low + 16777216 * b[4]
        ELSE ((low + 16777216 * (b[4] - 128)) - 2147483647) - 1

\* str.encode("utf-8") of one code point below 65536 (no surrogate).
Utf8Char(cp) ==
    IF cp < 128 THEN <<cp>>
    ELSE IF cp < 2048
    THEN <<192 + (cp \div 64), 128 + (cp % 64)>>
    ELSE <<224 + (cp \div 4096), 128 + ((cp \div 64) % 64), 128 + (cp % 64)>>

RECURSIVE Utf8Encode(_)
Utf8Encode(str) ==
    IF str = <<>> THEN <<>> ELSE Utf8Char(Head(str)) \o Utf8Encode(Tail(str))

\* bytes.decode("utf-8"): the code points, or "error" (UnicodeDecodeError)
\* on a byte sequence that is not UTF-8.
RECURSIVE Utf8Decode(_)
Utf8Decode(b) ==
    IF b = <<>> THEN <<>>
    ELSE LET n == IF b[1] < 128 THEN 1
                  ELSE IF b[1] >= 192 /\ b[1] < 224 THEN 2
                  ELSE IF b[1] >= 224 /\ b[1] < 240 THEN 3
                  ELSE 0
             cont(i) == i <= Len(b) /\ b[i] >= 128 /\ b[i] < 192
         IN  IF n = 0 \/ \E i \in 2..n : ~cont(i) THEN "error"
             ELSE LET cp == IF n = 1 THEN b[1]
                            ELSE IF n = 2 THEN (b[1] - 192) * 64 + (b[2] - 128)
                            ELSE (b[1] - 224) * 4096 + (b[2] - 128) * 64
                                    + (b[3] - 128)
                      rest == Utf8Decode(SubSeq(b, n + 1, Len(b)))
                  IN  IF rest = "error" THEN "error" ELSE <<cp>> \o rest

_format_packet(payload, packet_type, rid) ==
    LET body_bytes == Utf8Encode(payload)
    IN  Pack32(Len(body_bytes) + PACKET_METADATA_SIZE)
           \o Pack32(rid) \o Pack32(packet_type)
           \o body_bytes \o <<0, 0>>

\* A decoder that cuts one byte too few from the end of the packet.
_read_response_OffByOne(data) ==
    IF Len(data) < 4 THEN [status |-> "IncompleteReadError"]
    ELSE LET response_length == Unpack32(SubSeq(data, 1, 4))
         IN  IF Len(data) < 4 + response_length
             THEN [status |-> "IncompleteReadError"]
             ELSE LET response_bytes == SubSeq(data, 5, 4 + response_length)
                  IN  [status |-> "ok",
                       response_id |-> Unpack32(SubSeq(response_bytes, 1, 4)),
                       response_body |->
                          Utf8Decode(SubSeq(response_bytes, 9,
                                            response_length - 1)),
                       unread |-> SubSeq(data, 5 + response_length, Len(data))]

\* _read_response on a reader that holds the bytes data: readexactly(4),
\* readexactly(response_length), the id from bytes 0..3 of the rest and the
\* body from its bytes 8 .. -2.  The two values it returns, and the bytes it
\* leaves in the reader.
_read_response(data) ==
    IF Len(data) < 4 THEN [status |-> "IncompleteReadError"]
    ELSE LET response_length == Unpack32(SubSeq(data, 1, 4))
         IN  IF Len(data) < 4 + response_length
             THEN [status |-> "IncompleteReadError"]
             ELSE LET response_bytes == SubSeq(data, 5, 4 + response_length)
                  IN  [status |-> "ok",
                       response_id |-> Unpack32(SubSeq(response_bytes, 1, 4)),
                       response_body |->
                          Utf8Decode(SubSeq(response_bytes, 9,
                                            response_length - 2)),
                       unread |-> SubSeq(data, 5 + response_length, Len(data))]

\* The packets of the codec runs: bodies of up to MaxBody characters over
\* NUL, "a", e-acute (two bytes) and the euro sign (three bytes); the five
\* packet types; request ids at the byte and sign boundaries; and the bytes
\* that follow the packet in the reader.
BodyChars == {0, 97, 233, 8364}
PacketBodies == UNION {[1..n -> BodyChars] : n \in 0..MaxBody}
PacketTypes == {-1, 0, 2, 3, 200}
PacketIds == {-1, 0, 2, 255, 256, 1002, 65536, 2147483647, -2147483647 - 1}
TrailingBytes == {<<>>, <<14>>}

FrameInit ==
    /\ config = [grace_period |-> DISABLE, await_shutdown_period |-> NO_TIMEOUT,
                 command_delay |-> DISABLE, worker_count |-> 1]
    /\ PoolInit
    /\ command_id = [c \in Cmds |-> c]
    /\ dependencies = [c \in Cmds |-> <<>>]
    /\ result = [c \in Cmds |-> "pending"]
    /\ sort_input = <<>>
    /\ sort_output = [status |-> "none", sorted |-> <<>>]
    /\ request_id = 1
    /\ script = <<>>
    /\ stream = <<>>
    /\ response_parts = <<>>
    /\ send_pc = "idle"
    /\ send_result = NoResult
    /\ session_lost = {}
    /\ SockInit
    /\ shutdown_calls = 0
    /\ fifo_log = NoLog
    /\ conn = [i \in Workers |-> ConnectedClient]
    /\ connect_pc = "returned"
    /\ connect_error = "none"
    /\ num_retries = INFINITE
    /\ \E payload \in PacketBodies, packet_type \in PacketTypes,
          rid \in PacketIds, unread \in TrailingBytes :
          codec = [stage |-> "input", payload |-> payload,
                   packet_type |-> packet_type, request_id |-> rid,
                   unread |-> unread]

\* The packet is formatted and written; the reader holds its bytes and
\* those that follow.
FormatPacket ==
    /\ codec.stage = "input"
    /\ codec' = [stage |-> "written", payload |-> codec.payload,
                 packet_type |-> codec.packet_type,
                 request_id |-> codec.request_id, unread |-> codec.unread,
                 packet |-> _format_packet(codec.payload, codec.packet_type,
                                           codec.request_id)]
    /\ UNCHANGED <<cmd_vars, config, queue_vars, flag_vars, worker_vars,
                   shutdown_pc, last_call, submitted, hist_vars, sort_vars,
                   client_vars, shutdown_calls, fifo_log>>

ReadResponse ==
    /\ codec.stage = "written"
    /\ codec' = [stage |-> "read", payload |-> codec.payload,
                 packet_type |-> codec.packet_type,
                 request_id |-> codec.request_id, unread |-> codec.unread,
                 packet |-> codec.packet,
                 response |-> _read_response(codec.packet \o codec.unread)]
    /\ UNCHANGED <<cmd_vars, config, queue_vars, flag_vars, worker_vars,
                   shutdown_pc, last_call, submitted, hist_vars, sort_vars,
                   client_vars, shutdown_calls, fifo_log>>

FrameNext == FormatPacket \/ ReadResponse

FrameSpec == FrameInit /\ [][FrameNext]_vars

\* The length field of the packet written.
LengthField == Unpack32(SubSeq(codec.packet, 1, 4))

C26_NoStaleFrames ==
    [][\A w \in Workers :
         /\ (send_pc /= "returned" /\ send_pc' = "returned") => stream' = <<>>
         /\ SendReadFrame(w) =>
               Head(stream).id \in {-1, request_id, request_id + DummyOffset}
      ]_vars

\* The command packets written to the streams of session s, in order.
CommandsOf(s) ==
    SelectSeq(wire, LAMBDA p : p.session = s /\ p.type = "COMMAND")

\* C27 (request id sequencing): within one authenticated session the k-th
\* send_command writes its COMMAND packet with id k + 1 and its DUMMY
\* packet with id k + 1001; _request_id grows by one with each send_command
\* of a session, is -1 exactly while the client is disconnected (no
\* disconnect() or reconnect() under way), and becomes 1 only through a
\* successful authentication.
C27_RequestIdSequencing ==
    /\ [](/\ \A s \in 1..(client.session + 1) :
                \A k \in 1..Len(CommandsOf(s)) : CommandsOf(s)[k].id = k + 1
          /\ \A i \in 1..Len(wire) :
                wire[i].type = "DUMMY" =>
                   /\ i > 1
                   /\ wire[i - 1].type = "COMMAND"
                   /\ wire[i - 1].session = wire[i].session
                   /\ wire[i].id = wire[i - 1].id + 1000
          /\ client.pc = "idle" => (client.open <=> request_id /= -1)
          /\ request_id = -1 \/ request_id >= 1)
    /\ [][\A w \in Workers :
            /\ (ClientSendStart(w)
                  \/ \E kind \in {"TimeoutError", "ConnectionError"} :
                        ClientDrainFails(w, kind))
                  => /\ request_id /= -1
                     /\ request_id' = request_id + 1
                     /\ wire'[Len(wire) + 1] =
                           [session |-> client.session, id |-> request_id',
                            type |-> "COMMAND"]
            /\ (client'.session = client.session
                  /\ request_id /= -1 /\ request_id' /= -1)
                  => request_id' >= request_id
            /\ (request_id' = 1 /\ request_id /= 1)
                  => /\ ReconnectAuthResponse(w, 0)
                     /\ request_id = -1
                     /\ client'.session = client.session + 1
         ]_vars

C27_Witness ==
    /\ Len(wire) = 4
    /\ wire[3] = [session |-> 1, id |-> 3, type |-> "COMMAND"]
    /\ wire[4] = [session |-> 1, id |-> 1003, type |-> "DUMMY"]
    /\ request_id = -1
    /\ ~client.open
    /\ worker_pc[1] = "done"

\* The workers that are inside send_command, reconnect() or disconnect()
\* of client c.
InProgress(c) ==
    {w \in Workers : ClientOf(w) = c
                       /\ worker_pc[w] \in {"send", "reconnect", "disconnect"}}

C29_ShutdownPhaseOrder ==
    /\ [](/\ shutdown_pc /= "idle" => pool_should_shutdown
          /\ shutdown_pc = "grace" =>
                ~worker_should_shutdown /\ ~is_shutdown
          /\ worker_should_shutdown => pool_should_shutdown
          /\ is_shutdown => worker_should_shutdown /\ queue = <<>>)
    /\ [][/\ pool_should_shutdown => pool_should_shutdown'
          /\ worker_should_shutdown => worker_should_shutdown'
          /\ is_shutdown => is_shutdown'
          /\ (~pool_should_shutdown /\ pool_should_shutdown') =>
                shutdown_pc = "idle" /\ shutdown_pc' /= "idle"
          /\ (~worker_should_shutdown /\ worker_should_shutdown') =>
                /\ shutdown_pc' \in {"await", "done"}
                /\ \/ shutdown_pc = "idle"
                         /\ (config.grace_period = DISABLE
                               \/ unfinished_tasks = 0)
                   \/ shutdown_pc = "grace"
                         /\ (unfinished_tasks = 0
                               \/ config.grace_period /= NO_TIMEOUT)
          /\ (~is_shutdown /\ is_shutdown') =>
                /\ worker_should_shutdown'
                /\ queue' = <<>>
                /\ force_failed' = force_failed \cup Range(queue)
       ]_vars

C29_Witness ==
    /\ shutdown_pc = "await"
    /\ config.grace_period \notin {DISABLE, NO_TIMEOUT}
    /\ pool_should_shutdown /\ worker_should_shutdown /\ is_shutdown
    /\ force_failed /= {}
    /\ unfinished_tasks > 0
    /\ \E w \in Workers : worker_pc[w] = "send"

(***************************************************************************)
(* shutdown() of a healthy pool: every worker was started and runs, the    *)
(* server answers every command with a response, and the grace period is   *)
(* one of the two sentinels.                                               *)
(***************************************************************************)
GraceInit ==
    /\ Init
    /\ config.grace_period \in {NO_TIMEOUT, DISABLE}

GraceNext ==
    \/ \E c \in Cmds : queue_command(c) /\ UNCHANGED rest_vars
    \/ \E commands \in Jobs : queue_job(commands) /\ UNCHANGED rest_vars
    \/ \E w \in Workers : WorkerGet(w) /\ UNCHANGED rest_vars
    \/ \E w \in Workers : WorkerExit(w) /\ UNCHANGED rest_vars
    \/ \E w \in Workers : WorkerDepsDone(w) /\ UNCHANGED rest_vars
    \/ \E w \in Workers : WorkerSendReturns(w, "response") /\ UNCHANGED rest_vars
    \/ \E w \in Workers : WorkerDelayDone(w) /\ UNCHANGED rest_vars
    \/ \E w \in Workers : WorkerDisconnected(w) /\ UNCHANGED rest_vars
    \/ ShutdownBegin /\ UNCHANGED rest_vars
    \/ ShutdownGraceEnds /\ UNCHANGED rest_vars
    \/ ShutdownAwaitEnds /\ UNCHANGED rest_vars

GraceSpec == GraceInit /\ [][GraceNext]_vars

\* C30 (grace period sentinels): with grace_period = NO_TIMEOUT, all
\* workers running and a server that answers every command, shutdown()
\* force-fails nothing: every command accepted before shutdown() was called
\* has been sent and settled by a worker when worker_should_shutdown is
\* set; with grace_period = DISABLE the wait is skipped and the commands
\* still queued are force-failed at once.
C30_GraceSentinels ==
    [][(~worker_should_shutdown /\ worker_should_shutdown') =>
          IF config.grace_period = NO_TIMEOUT
          THEN /\ force_failed' = {}
               /\ \A c \in submitted :
                     /\ sent[c] > 0
                     /\ completion[c]
                     /\ "response" \in handled[c]
                     /\ result[c] \in {Response, "absent"}
          ELSE /\ shutdown_pc = "idle"
               /\ queue' = <<>>
               /\ force_failed' = Range(queue)
               /\ \A c \in Range(queue) :
                     result[c] = "pending" => result'[c] = PoolShutDown
      ]_vars

\* C31 (in-flight commands are not interrupted by the shutdown flags): when
\* no worker is force-cancelled (await_shutdown_period = NO_TIMEOUT), a
\* worker that holds a command, waiting for its dependencies or inside
\* send_command, goes on to send it and leaves send_command only with the
\* command settled with its response or error, whatever the shutdown flags
\* say; it exits only from the loop head, with no command in hand, and
\* takes no command once worker_should_shutdown is set.
C31_InFlightNotInterrupted ==
    [][\A w \in Workers :
         config.await_shutdown_period = NO_TIMEOUT =>
            /\ (worker_pc[w] = "deps" /\ worker_pc'[w] /= "deps") =>
                  \/ worker_pc'[w] = "send" /\ sent'[worker_cmd[w]] > 0
                  \/ /\ ~connected[ClientOf(w)]
                     /\ worker_pc'[w] = "reconnect"
                     /\ completion'[worker_cmd[w]]
            /\ (worker_pc[w] = "send" /\ worker_pc'[w] /= "send") =>
                  /\ worker_pc'[w] \in {"get", "delay", "reconnect"}
                  /\ completion'[worker_cmd[w]]
                  /\ result'[worker_cmd[w]] \in Outcomes \cup {"absent"}
                  /\ handled'[worker_cmd[w]] /= {}
            /\ (Running(w) /\ worker_pc'[w] \in {"disconnect", "done"}
                  /\ worker_pc[w] /= "disconnect") =>
                  worker_pc[w] = "get" /\ worker_cmd[w] = NoCmd
            /\ (worker_should_shutdown /\ worker_cmd[w] = NoCmd) =>
                  worker_cmd'[w] = NoCmd /\ queue' = queue
      ]_vars

\* C32 (connections are closed at shutdown): when shutdown() has returned,
\* every client of the pool has been disconnected, for the workers that
\* exited on their own and for the workers that were cancelled.
C32_ClosedAtShutdown ==
    shutdown_pc = "done" => \A c \in Clients : ~connected[c]

\* C33 (pacing delay): with command_delay > 0 a worker pauses after a
\* command exactly when send_command returned a response string for it; it
\* does not pause after a command that failed (transport error or
\* AuthLost), and with command_delay = 0 it never pauses.
C33_PacingDelay ==
    [][\A w \in Workers :
         /\ (WorkerSendReturns(w, "response") /\ worker_pc'[w] /= "raised") =>
               (worker_pc'[w] = "delay" <=> config.command_delay > 0)
         /\ WorkerSendReturns(w, "null") => worker_pc'[w] /= "delay"
         /\ WorkerSendFails(w) => worker_pc'[w] /= "delay"
         /\ worker_pc'[w] = "delay" => config.command_delay > 0
      ]_vars

(***************************************************************************)
(* The order of the queue.  fifo_log records, step by step, the commands   *)
(* that put_nowait appended, the commands that left the queue (handed to a *)
(* worker by get(), or taken by shutdown()'s get_nowait loop), and the     *)
(* commands whose text a worker wrote.  Workers are never cancelled and    *)
(* there is no pacing delay.                                               *)
(***************************************************************************)
LogQueue ==
    LET put == IF Len(queue') > Len(queue)
               THEN SubSeq(queue', Len(queue) + 1, Len(queue'))
               ELSE <<>>
        takers == {w \in Workers :
                     worker_cmd[w] = NoCmd /\ worker_cmd'[w] /= NoCmd}
        got == IF takers /= {}
               THEN <<worker_cmd'[CHOOSE w \in takers : TRUE]>>
               ELSE IF force_failed' /= force_failed THEN queue
               ELSE <<>>
        writes == {c \in Cmds : sent'[c] > sent[c]}
        wrote == IF writes /= {} THEN <<CHOOSE c \in writes : TRUE>>
                 ELSE <<>>
    IN  fifo_log' = [accepted |-> fifo_log.accepted \o put,
                     dequeued |-> fifo_log.dequeued \o got,
                     written |-> fifo_log.written \o wrote]

Logged(A) == A /\ LogQueue /\ UNCHANGED <<client_vars, shutdown_calls, codec>>

FifoInit ==
    /\ Init
    /\ config.await_shutdown_period = NO_TIMEOUT
    /\ config.command_delay = DISABLE

FifoNext ==
    \/ \E c \in Cmds : Logged(queue_command(c))
    \/ \E commands \in Jobs : Logged(queue_job(commands))
    \/ \E w \in Workers : Logged(WorkerGet(w))
    \/ \E w \in Workers : Logged(WorkerExit(w))
    \/ \E w \in Workers : Logged(WorkerDepsDone(w))
    \/ \E w \in Workers : \E r \in {"response", "null"} :
          Logged(WorkerSendReturns(w, r))
    \/ \E w \in Workers : Logged(WorkerSendFails(w))
    \/ \E w \in Workers : \E ok \in BOOLEAN :
          Logged(WorkerReconnectReturns(w, ok))
    \/ \E w \in Workers : Logged(WorkerDisconnected(w))
    \/ Logged(ShutdownBegin)
    \/ Logged(ShutdownGraceEnds)
    \/ Logged(ShutdownAwaitEnds)

FifoSpec == FifoInit /\ [][FifoNext]_vars

\* a is b with some elements left out, the order kept.
RECURSIVE IsSubsequence(_, _)
IsSubsequence(a, b) ==
    IF a = <<>> THEN TRUE
    ELSE IF b = <<>> THEN FALSE
    ELSE IF Head(a) = Head(b) THEN IsSubsequence(Tail(a), Tail(b))
    ELSE IsSubsequence(a, Tail(b))

\* C34 (FIFO dispatch): commands leave the queue in exactly the order in
\* which they were accepted (submission order, and sorted order inside a
\* job): no command is dequeued while a command accepted earlier is still
\* in the queue, and with worker_count = 1 the command texts are written
\* to the server in acceptance order.
C34_FifoDispatch ==
    /\ fifo_log.accepted = fifo_log.dequeued \o queue
    /\ config.worker_count = 1 =>
          IsSubsequence(fifo_log.written, fifo_log.dequeued)

C34_Witness ==
    /\ config.worker_count = 1
    /\ fifo_log.accepted = <<2, 1>>
    /\ fifo_log.written = <<2, 1>>
    /\ dependencies[1] = <<2>>

\* The commands a worker has dequeued and not yet finished with.
InFlight == {w \in Workers : worker_pc[w] \in {"deps", "send"}}

\* C35 (queue accounting): a worker calls task_done exactly once for every
\* command it dequeues, on every path, so the queue's unfinished count
\* never drops below zero and, while shutdown has not drained the queue,
\* equals the number of commands still queued plus the commands in flight;
\* the grace-period join completes exactly when every accepted command has
\* been processed.
C35_QueueAccounting ==
    /\ [](/\ unfinished_tasks >= 0
          /\ ~is_shutdown =>
                unfinished_tasks = Len(queue) + Cardinality(InFlight)
          /\ shutdown_pc = "grace" =>
                (unfinished_tasks = 0 <=>
                    (queue = <<>> /\ InFlight = {}))
          /\ \A w \in Workers :
                worker_cmd[w] /= NoCmd /\ worker_pc[w] \in {"done", "raised"} =>
                   handled[worker_cmd[w]] /= {})
    /\ [][\A w \in Workers :
            (w \in InFlight /\ worker_pc'[w] \notin {"deps", "send"}) =>
               unfinished_tasks' = unfinished_tasks - 1]_vars

\* C36 (worker survival): until shutdown sets worker_should_shutdown, every
\* worker task of the pool keeps running, whatever the server does
\* (timeouts, streams closed mid-frame, reconnects that exhaust the retry
\* budget or time out during auth, a rejected re-authentication): no such
\* event ends a worker task.
C36_WorkerSurvival ==
    ~worker_should_shutdown => \A w \in Workers : Running(w)

(***************************************************************************)
(* shutdown() with bounded waits: both periods are finite or DISABLE.  The *)
(* event loop runs shutdown() when it is ready: when a wait_for ends, by   *)
(* completion or because its timer fired, the coroutine goes on; hence the *)
(* weak fairness of the two steps that end its waits.  Nothing is assumed  *)
(* of the workers or of the server.                                        *)
(***************************************************************************)
TermInit ==
    /\ Init
    /\ config.grace_period /= NO_TIMEOUT
    /\ config.await_shutdown_period /= NO_TIMEOUT

TermFairness ==
    /\ WF_vars(ShutdownGraceEnds /\ UNCHANGED rest_vars)
    /\ WF_vars(ShutdownAwaitEnds /\ UNCHANGED rest_vars)

TermSpec == TermInit /\ [][Next]_vars /\ TermFairness

\* C37 (shutdown terminates): when grace_period and await_shutdown_period
\* are both finite or DISABLE, a shutdown() that was called returns, from
\* every reachable state of the pool: also when a worker is blocked in a
\* dependency wait that is never released, in a read of the socket, or in
\* reconnect().
C37_ShutdownTerminates ==
    (shutdown_pc /= "idle") ~> (shutdown_pc = "done")

\* shutdown() has returned, and it had to cancel a worker that was waiting
\* for a dependency whose completion is never set.
C37_Witness ==
    /\ shutdown_pc = "done"
    /\ \E w \in Workers :
          /\ worker_pc[w] = "cancelled"
          /\ worker_cmd[w] /= NoCmd
          /\ sent[worker_cmd[w]] = 0
          /\ \E d \in Range(dependencies[worker_cmd[w]]) : ~completion[d]
    /\ \E w \in Workers : worker_pc[w] = "cancelled" /\ worker_cmd[w] /= NoCmd
                             /\ sent[worker_cmd[w]] > 0

\* C38 (a failed dependency does not block or fail its dependers): a
\* worker that holds a depender can go on to send it as soon as all its
\* dependencies have settled, whatever their outcomes; the depender's
\* outcome comes from its own send only (its response, AuthLost or a
\* transport error), or from the shutdown drain when it was still queued.
C38_FailedDependency ==
    /\ [](\A w \in Workers :
             (worker_pc[w] = "deps"
                /\ \A d \in Range(dependencies[worker_cmd[w]]) : completion[d])
             => ENABLED (WorkerDepsDone(w) /\ UNCHANGED rest_vars))
    /\ [][\A w \in Workers :
            /\ (worker_pc[w] = "deps" /\ worker_pc'[w] /= "deps"
                  /\ Running(w)') =>
                  IF connected[ClientOf(w)]
                  THEN /\ worker_pc'[w] = "send"
                       /\ sent'[worker_cmd[w]] = sent[worker_cmd[w]] + 1
                       /\ result' = result
                  ELSE result'[worker_cmd[w]]
                          \in {result[worker_cmd[w]], TransportError}
            /\ (WorkerSendReturns(w, "response")
                  /\ result[worker_cmd[w]] = "pending"
                  /\ Running(w)') =>
                  result'[worker_cmd[w]] = Response
         ]_vars
    /\ [][\A c \in Cmds :
            result'[c] /= result[c] =>
               \/ /\ \E w \in Workers :
                        /\ (worker_cmd[w] = c \/ worker_cmd'[w] = c)
                        /\ worker_pc[w] \in {"get", "deps", "send"}
                  /\ result'[c] \in {Response, AuthLost, TransportError}
               \/ c \in Range(queue) /\ result'[c] = PoolShutDown
         ]_vars

\* A depender got its response although one of its dependencies was
\* force-failed by shutdown and another way failed in its own send.
C38_Witness ==
    \E c, d \in Cmds :
       /\ d \in Range(dependencies[c])
       /\ result[d] \in {PoolShutDown, TransportError, AuthLost}
       /\ completion[d]
       /\ result[c] = Response
       /\ sent[c] = 1

\* Every command went to the pool in a job that holds its dependencies, as
\* create_job_from_specification builds them: each is on the queue once.
JobsClosed == submitted = Cmds /\ \A c \in Cmds : enqueued[c] = 1

\* C39 (jobs mixing result-bearing and fire-and-forget commands make
\* progress): with the server answering and no shutdown, a command that
\* depends on a fire-and-forget command is eventually sent once a worker
\* has processed that dependency, and every result-bearing command of the
\* job eventually settles.
C39_MixedJobProgress ==
    /\ \A c \in 1..NumCommands :
          (JobsClosed /\ result[c] = "pending") ~> Settled(c)
    /\ \A c, d \in 1..NumCommands :
          (/\ JobsClosed
           /\ d \in Range(dependencies[c])
           /\ result[d] = "absent"
           /\ handled[d] /= {}) ~> (sent[c] > 0)

=============================================================================
